---- MODULE Spec2Model ----
(***************************************************************************)
(* Model of the Storno MCP server's authenticated HTTP client              *)
(* (client.ts: apiRequest, refreshAccessToken) and of its session store    *)
(* (config.ts: getConfig, updateConfig).                                   *)
(*                                                                         *)
(* A call of apiRequest is a small process: it builds the request and      *)
(* issues fetch (one atomic step, the code has no await before line 136),  *)
(* then resumes once per awaited network operation.  The remote server and *)
(* the transport are the environment: every response and every transport   *)
(* failure is a nondeterministic choice.                                   *)
(***************************************************************************)
EXTENDS Integers, Sequences, FiniteSets, TLC

(***************************************************************************)
(* JavaScript values.  Every value carries its type tag, so that values of *)
(* different JavaScript types can be compared.                             *)
(***************************************************************************)
Undefined == [t |-> "undefined"]
JNull == [t |-> "null"]
Str(s) == [t |-> "string", s |-> s]
Num(n) == [t |-> "number", n |-> n]
Bool(b) == [t |-> "boolean", b |-> b]
\* An object is its list of own enumerable properties, in insertion order.
Obj(entries) == [t |-> "object", entries |-> entries]

\* ToBoolean: what `if (v)`, `!v`, `a || b` test.
Truthy(v) ==
  CASE v.t = "undefined" -> FALSE
    [] v.t = "null" -> FALSE
    [] v.t = "string" -> v.s # ""
    [] v.t = "number" -> v.n # 0
    [] v.t = "boolean" -> v.b
    [] OTHER -> TRUE

\* a || b
OrElse(a, b) == IF Truthy(a) THEN a ELSE b

Digit(d) == SubSeq("0123456789", d + 1, d + 1)

RECURSIVE NatToString(_)
NatToString(n) == IF n < 10 THEN Digit(n) ELSE NatToString(n \div 10) \o Digit(n % 10)

\* String(v) and template-literal interpolation `${v}` of a primitive.
StringOf(v) ==
  CASE v.t = "undefined" -> "undefined"
    [] v.t = "null" -> "null"
    [] v.t = "string" -> v.s
    [] v.t = "number" -> IF v.n < 0 THEN "-" \o NatToString(-v.n) ELSE NatToString(v.n)
    [] v.t = "boolean" -> IF v.b THEN "true" ELSE "false"
    [] OTHER -> "[object Object]"

\* s.startsWith(p)
StartsWith(s, p) == Len(s) >= Len(p) /\ SubSeq(s, 1, Len(p)) = p

\* obj.key on a parsed value: undefined when the property is missing, and on
\* every primitive; reading a property of null or undefined is a TypeError,
\* which the callers of GetProp test with IsNullish first.
IsNullish(v) == v.t \in {"undefined", "null"}

RECURSIVE Lookup(_, _)
Lookup(entries, key) ==
  IF entries = << >> THEN Undefined
  ELSE IF Head(entries)[1] = key THEN Head(entries)[2]
  ELSE Lookup(Tail(entries), key)

GetProp(v, key) == IF v.t = "object" THEN Lookup(v.entries, key) ELSE Undefined

(***************************************************************************)
(* config.ts: the session store.                                           *)
(***************************************************************************)
\* `let _config: Config | null = null`
NoConfig == [t |-> "null"]

DefaultBaseUrl == "https://api.storno.ro"

\* s.replace(/\/$/, '')
StripTrailingSlash(s) ==
  IF Len(s) > 0 /\ SubSeq(s, Len(s), Len(s)) = "/" THEN SubSeq(s, 1, Len(s) - 1) ELSE s

\* The record getConfig builds from process.env on first access.
ConfigFromEnv(e) ==
  [baseUrl |-> StripTrailingSlash(OrElse(e.STORNO_BASE_URL, Str(DefaultBaseUrl)).s),
   token |-> OrElse(e.STORNO_TOKEN, JNull),
   refreshToken |-> OrElse(e.STORNO_REFRESH_TOKEN, JNull),
   companyId |-> OrElse(e.STORNO_COMPANY_ID, JNull),
   email |-> OrElse(e.STORNO_EMAIL, JNull),
   password |-> OrElse(e.STORNO_PASSWORD, JNull)]

\* A faulty getConfig: the session is built from process.env at each access.
getConfig_Rereads(cfg, e) == ConfigFromEnv(e)

\* getConfig(): the session after the call (created on first access).
getConfig(cfg, e) == IF cfg = NoConfig THEN ConfigFromEnv(e) ELSE cfg

\* A faulty updateConfig: the merged session is rebuilt with the default base
\* URL.
updateConfig_ResetsBaseUrl(cfg, e, updates) ==
  LET c == getConfig(cfg, e)
  IN [k \in DOMAIN c |-> IF k \in DOMAIN updates THEN updates[k]
                         ELSE IF k = "baseUrl" THEN DefaultBaseUrl ELSE c[k]]

\* updateConfig(updates): Object.assign(getConfig(), updates).
updateConfig(cfg, e, updates) ==
  LET c == getConfig(cfg, e)
  IN [k \in DOMAIN c |-> IF k \in DOMAIN updates THEN updates[k] ELSE c[k]]

(***************************************************************************)
(* client.ts: building the request (lines 77-132).                         *)
(***************************************************************************)
\* URLSearchParams.set(key, value): the first entry named key takes the value
\* and the other entries named key are removed; appended when there is none.
RECURSIVE WithoutKey(_, _)
WithoutKey(params, key) ==
  IF params = << >> THEN << >>
  ELSE IF Head(params)[1] = key THEN WithoutKey(Tail(params), key)
  ELSE <<Head(params)>> \o WithoutKey(Tail(params), key)

RECURSIVE SearchParamsSet(_, _, _)
SearchParamsSet(params, key, value) ==
  IF params = << >> THEN << <<key, value>> >>
  ELSE IF Head(params)[1] = key THEN << <<key, value>> >> \o WithoutKey(Tail(params), key)
  ELSE <<Head(params)>> \o SearchParamsSet(Tail(params), key, value)

\* A faulty QueryValueIsSent: every falsy value is dropped, 0 and false too.
QueryValueIsSent_Truthy(value) == Truthy(value)

\* The test of line 84.
QueryValueIsSent(value) == value # Undefined /\ value # JNull /\ value # Str("")

\* The loop of lines 83-87 over Object.entries(query), from the search
\* parameters `params` of the URL so far.
RECURSIVE AppendQuery(_, _)
AppendQuery(params, entries) ==
  IF entries = << >> THEN params
  ELSE LET key == Head(entries)[1]
           value == Head(entries)[2]
       IN AppendQuery(IF QueryValueIsSent(value)
                        THEN SearchParamsSet(params, key, StringOf(value))
                        ELSE params,
                      Tail(entries))

\* Lines 81-88: new URL(path, config.baseUrl) plus the query parameters.  The
\* paths the tool handlers pass are absolute and carry no query string.
BuildUrl(path, query, cfg) ==
  [href |-> cfg.baseUrl \o path,
   searchParams |-> IF Truthy(query) THEN AppendQuery(<< >>, query.entries) ELSE << >>]

NoHeaders == [h \in {} |-> ""]

SetHeader(headers, name, value) == (name :> value) @@ headers

ApiKeyPrefix == "af_"

\* Lines 98-99.
AuthorizationValue(token) ==
  IF StartsWith(token, ApiKeyPrefix) THEN token ELSE "Bearer " \o token

\* A faulty WithAuthorization: the noAuth option is not looked at.
WithAuthorization_IgnoringNoAuth(headers, noAuth, cfg) ==
  IF Truthy(cfg.token)
    THEN SetHeader(headers, "Authorization", AuthorizationValue(cfg.token.s))
    ELSE headers

\* Lines 95-100.
WithAuthorization(headers, noAuth, cfg) ==
  IF ~Truthy(noAuth) /\ Truthy(cfg.token)
    THEN SetHeader(headers, "Authorization", AuthorizationValue(cfg.token.s))
    ELSE headers

\* A faulty effectiveCompanyId: the session default wins over the override.
effectiveCompanyId_SessionFirst(companyId, cfg) == OrElse(cfg.companyId, companyId)

\* Line 102.
effectiveCompanyId(companyId, cfg) == OrElse(companyId, cfg.companyId)

\* Lines 102-105.
WithCompany(headers, companyId, cfg) ==
  IF Truthy(effectiveCompanyId(companyId, cfg))
    THEN SetHeader(headers, "X-Company", effectiveCompanyId(companyId, cfg).s)
    ELSE headers

\* The file system readFileSync sees: the files that can be read, and their bytes.
ReadableFiles == {"/data/statement.csv"}

FileBytes(path) == <<105, 100, 59, 49>>

CanReadFile(path) == path \in ReadableFiles

\* path.basename(p) of an absolute path.
basename(p) ==
  LET RECURSIVE LastSlash(_)
      LastSlash(i) == IF i = 0 THEN 0
                      ELSE IF SubSeq(p, i, i) = "/" THEN i ELSE LastSlash(i - 1)
  IN SubSeq(p, LastSlash(Len(p)) + 1, Len(p))

\* JSON.stringify of a primitive or of a flat object of primitives.
JSONStringifyPrimitive(v) ==
  IF v.t = "string" THEN "\"" \o v.s \o "\"" ELSE StringOf(v)

RECURSIVE JSONStringifyEntries(_, _)
JSONStringifyEntries(entries, first) ==
  IF entries = << >> THEN ""
  ELSE IF Head(entries)[2] = Undefined THEN JSONStringifyEntries(Tail(entries), first)
  ELSE (IF first THEN "" ELSE ",")
         \o "\"" \o Head(entries)[1] \o "\":" \o JSONStringifyPrimitive(Head(entries)[2])
         \o JSONStringifyEntries(Tail(entries), FALSE)

JSONStringify(v) ==
  IF v.t = "object" THEN "{" \o JSONStringifyEntries(v.entries, TRUE) \o "}"
  ELSE JSONStringifyPrimitive(v)

RECURSIVE FormFieldParts(_)
FormFieldParts(entries) ==
  IF entries = << >> THEN << >>
  ELSE <<[name |-> Head(entries)[1], value |-> Head(entries)[2].s]>>
         \o FormFieldParts(Tail(entries))

NoBody == [kind |-> "none"]

\* Lines 110-120: the multipart form of a file that could be read.
MultipartBody(o) ==
  [kind |-> "multipart",
   parts |-> <<[name |-> o.fileFieldName,
                filename |-> basename(o.filePath.s),
                data |-> FileBytes(o.filePath.s)]>>
             \o (IF Truthy(o.formFields) THEN FormFieldParts(o.formFields.entries) ELSE << >>)]

\* A faulty BodyKind: a JSON body wins over a file upload.
BodyKind_JsonFirst(o) ==
  IF Truthy(o.body) THEN "json"
  ELSE IF Truthy(o.filePath) THEN "multipart"
  ELSE "none"

\* Lines 107-125: which body is sent.
BodyKind(o) ==
  IF Truthy(o.filePath) THEN "multipart"
  ELSE IF Truthy(o.body) THEN "json"
  ELSE "none"

requestBody(o) ==
  CASE BodyKind(o) = "multipart" -> MultipartBody(o)
    [] BodyKind(o) = "json" -> [kind |-> "json", text |-> JSONStringify(o.body)]
    [] OTHER -> NoBody

\* Lines 90-125: reqHeaders as passed to the first fetch.
reqHeaders(o, cfg) ==
  LET h1 == WithAuthorization(o.headers, o.noAuth, cfg)
      h2 == WithCompany(h1, o.companyId, cfg)
  IN IF BodyKind(o) = "json" THEN SetHeader(h2, "Content-Type", "application/json") ELSE h2

\* readFileSync (line 112) throws when the file cannot be read.
BuildThrows(o) == Truthy(o.filePath) /\ ~CanReadFile(o.filePath.s)

\* The request the first fetch sends (lines 128-136).
TargetRequest(path, o, cfg) ==
  [dest |-> "target",
   method |-> o.method,
   url |-> BuildUrl(path, o.query, cfg),
   headers |-> reqHeaders(o, cfg),
   body |-> requestBody(o)]

(***************************************************************************)
(* client.ts: parsing the response (lines 165-212).                        *)
(*                                                                         *)
(* A response is [status, contentType, body, readable]: contentType is the *)
(* value of headers.get('content-type') (null when the header is missing), *)
(* body the text of the payload, and readable tells whether reading the    *)
(* body stream succeeds (text(), json() and arrayBuffer() reject if not).  *)
(***************************************************************************)
Success(status, data) == [ok |-> TRUE, status |-> status, data |-> data]

Failure(status, error) == [ok |-> FALSE, status |-> status, error |-> error]

FailureWithDetails(status, error, details) ==
  [ok |-> FALSE, status |-> status, error |-> error, details |-> details]

\* How a call of an async function ends: its promise resolves to a value, or
\* rejects with an exception.
Returned(value) == [kind |-> "return", value |-> value]

Thrown(error) == [kind |-> "throw", error |-> error]

Pending == [kind |-> "pending"]

\* Response.ok
IsOk(res) == res.status >= 200 /\ res.status <= 299

\* s.includes(sub)
Includes(s, sub) ==
  \E i \in 1..(Len(s) - Len(sub) + 1) : SubSeq(s, i, i + Len(sub) - 1) = sub

\* JSON.parse on the payloads the modelled server sends: the parsed value, or
\* a SyntaxError.
JSONParse(text) ==
  CASE text = "{\"message\":\"Token expired\"}" ->
         [ok |-> TRUE, value |-> Obj(<< <<"message", Str("Token expired")>> >>)]
    [] text = "{\"error\":\"denied\"}" ->
         [ok |-> TRUE, value |-> Obj(<< <<"error", Str("denied")>> >>)]
    [] text = "{\"message\":\"\",\"error\":\"denied\"}" ->
         [ok |-> TRUE, value |-> Obj(<< <<"message", Str("")>>, <<"error", Str("denied")>> >>)]
    [] text = "{\"id\":7}" ->
         [ok |-> TRUE, value |-> Obj(<< <<"id", Num(7)>> >>)]
    [] text = "{}" -> [ok |-> TRUE, value |-> Obj(<< >>)]
    [] text = "null" -> [ok |-> TRUE, value |-> JNull]
    [] text = "7" -> [ok |-> TRUE, value |-> Num(7)]
    [] text = "{\"token\":\"eyJ1\",\"refresh_token\":\"rt1\"}" ->
         [ok |-> TRUE,
          value |-> Obj(<< <<"token", Str("eyJ1")>>, <<"refresh_token", Str("rt1")>> >>)]
    [] text = "{\"token\":\"af_rotated\",\"refresh_token\":\"rt1\"}" ->
         [ok |-> TRUE,
          value |-> Obj(<< <<"token", Str("af_rotated")>>, <<"refresh_token", Str("rt1")>> >>)]
    [] text = "{\"token\":\"eyJ2\",\"refresh_token\":\"rt2\"}" ->
         [ok |-> TRUE,
          value |-> Obj(<< <<"token", Str("eyJ2")>>, <<"refresh_token", Str("rt2")>> >>)]
    [] text = "{\"token\":\"eyJ3\",\"refresh_token\":\"rt3\"}" ->
         [ok |-> TRUE,
          value |-> Obj(<< <<"token", Str("eyJ3")>>, <<"refresh_token", Str("rt3")>> >>)]
    [] text = "{\"token\":\"eyJ5\"}" ->
         [ok |-> TRUE, value |-> Obj(<< <<"token", Str("eyJ5")>> >>)]
    [] OTHER -> [ok |-> FALSE]

\* The bytes of an ASCII text.
IndexIn(s, ch) == CHOOSE i \in 1..Len(s) : SubSeq(s, i, i) = ch

CharCode(ch) ==
  CASE Includes("0123456789", ch) -> 47 + IndexIn("0123456789", ch)
    [] Includes("ABCDEFGHIJKLMNOPQRSTUVWXYZ", ch) -> 64 + IndexIn("ABCDEFGHIJKLMNOPQRSTUVWXYZ", ch)
    [] Includes("abcdefghijklmnopqrstuvwxyz", ch) -> 96 + IndexIn("abcdefghijklmnopqrstuvwxyz", ch)
    [] ch = " " -> 32
    [] ch = "\"" -> 34
    [] ch = "%" -> 37
    [] ch = "," -> 44
    [] ch = "-" -> 45
    [] ch = "." -> 46
    [] ch = "/" -> 47
    [] ch = ":" -> 58
    [] ch = "<" -> 60
    [] ch = ">" -> 62
    [] ch = "_" -> 95
    [] ch = "{" -> 123
    [] ch = "}" -> 125

BodyBytes(text) == [i \in 1..Len(text) |-> CharCode(SubSeq(text, i, i))]

B64Alphabet == "ABCDEFGHIJKLMNOPQRSTUVWXYZabcdefghijklmnopqrstuvwxyz0123456789+/"

B64Char(i) == SubSeq(B64Alphabet, i + 1, i + 1)

\* Buffer.from(buffer).toString('base64')
RECURSIVE Base64(_)
Base64(bytes) ==
  IF Len(bytes) = 0 THEN ""
  ELSE IF Len(bytes) = 1 THEN
    B64Char(bytes[1] \div 4) \o B64Char((bytes[1] % 4) * 16) \o "=="
  ELSE IF Len(bytes) = 2 THEN
    B64Char(bytes[1] \div 4) \o B64Char((bytes[1] % 4) * 16 + bytes[2] \div 16)
      \o B64Char((bytes[2] % 16) * 4) \o "="
  ELSE
    B64Char(bytes[1] \div 4) \o B64Char((bytes[1] % 4) * 16 + bytes[2] \div 16)
      \o B64Char((bytes[2] % 16) * 4 + bytes[3] \div 64) \o B64Char(bytes[3] % 64)
      \o Base64(SubSeq(bytes, 4, Len(bytes)))

HttpStatusText(status) == "HTTP " \o NatToString(status)

\* Lines 166-178.
ParseBinary(res) ==
  IF ~IsOk(res)
    THEN Returned(Failure(res.status, IF res.readable THEN res.body ELSE "Unknown error"))
  ELSE IF ~res.readable
    THEN Thrown("TypeError: body stream cannot be read")
  ELSE Returned(Success(res.status,
                        [base64 |-> Base64(BodyBytes(res.body)),
                         contentType |-> res.contentType]))

\* A faulty ParseText: the status is not looked at.
ParseText_AlwaysSuccess(res) ==
  Returned(Success(res.status, Str(IF res.readable THEN res.body ELSE "")))

\* Lines 185-192.
ParseText(res) ==
  LET text == IF res.readable THEN res.body ELSE ""
  IN IF ~IsOk(res)
       THEN Returned(Failure(res.status, IF text # "" THEN text ELSE HttpStatusText(res.status)))
       ELSE Returned(Success(res.status, Str(text)))

\* Line 206.
ErrorText(errBody, status) ==
  IF Truthy(GetProp(errBody, "message")) THEN GetProp(errBody, "message").s
  ELSE IF Truthy(GetProp(errBody, "error")) THEN GetProp(errBody, "error").s
  ELSE HttpStatusText(status)

\* A faulty ParseJson: an OK response whose body is no JSON is returned as
\* text.
ParseJson_TextFallback(res) ==
  LET parsed == JSONParse(res.body)
  IN IF ~res.readable \/ ~parsed.ok
       THEN IF IsOk(res) /\ res.readable
              THEN Returned(Success(res.status, Str(res.body)))
              ELSE Returned(Failure(res.status, "Failed to parse JSON response"))
     ELSE IF ~IsOk(res)
       THEN IF IsNullish(parsed.value)
              THEN Thrown("TypeError: Cannot read properties of null (reading 'message')")
              ELSE Returned(FailureWithDetails(res.status,
                                               ErrorText(parsed.value, res.status),
                                               parsed.value))
     ELSE Returned(Success(res.status, parsed.value))

\* Lines 194-211.
ParseJson(res) ==
  LET parsed == JSONParse(res.body)
  IN IF ~res.readable \/ ~parsed.ok
       THEN Returned(Failure(res.status, "Failed to parse JSON response"))
     ELSE IF ~IsOk(res)
       THEN IF IsNullish(parsed.value)
              THEN Thrown("TypeError: Cannot read properties of null (reading 'message')")
              ELSE Returned(FailureWithDetails(res.status,
                                               ErrorText(parsed.value, res.status),
                                               parsed.value))
     ELSE Returned(Success(res.status, parsed.value))

\* A faulty ParseResponse: the test of status 204 is missing, and a 204 is
\* parsed by its content type.
ParseResponse_Without204(res, binary) ==
  IF Truthy(binary) THEN ParseBinary(res)
  ELSE IF ~Includes(StringOf(OrElse(res.contentType, Str(""))), "application/json")
    THEN ParseText(res)
  ELSE ParseJson(res)

\* Lines 165-212: how apiRequest ends on the response it parses.
ParseResponse(res, binary) ==
  IF Truthy(binary) THEN ParseBinary(res)
  ELSE IF res.status = 204 THEN Returned(Success(204, JNull))
  ELSE IF ~Includes(StringOf(OrElse(res.contentType, Str(""))), "application/json")
    THEN ParseText(res)
  ELSE ParseJson(res)

(***************************************************************************)
(* client.ts: the refresh protocol (lines 49-71 and 145-163).              *)
(***************************************************************************)
RefreshPath == "/api/auth/token/refresh"

\* A faulty RefreshRequest: the session token is sent along.
RefreshRequest_Authenticated(cfg) ==
  [dest |-> "refresh",
   method |-> "POST",
   url |-> [href |-> cfg.baseUrl \o RefreshPath, searchParams |-> << >>],
   headers |-> WithAuthorization(SetHeader(NoHeaders, "Content-Type", "application/json"),
                                 Undefined, cfg),
   body |-> [kind |-> "json",
             text |-> JSONStringify(Obj(<< <<"refresh_token", cfg.refreshToken>> >>))]]

\* Lines 54-58: the request refreshAccessToken sends.
RefreshRequest(cfg) ==
  [dest |-> "refresh",
   method |-> "POST",
   url |-> [href |-> cfg.baseUrl \o RefreshPath, searchParams |-> << >>],
   headers |-> SetHeader(NoHeaders, "Content-Type", "application/json"),
   body |-> [kind |-> "json",
             text |-> JSONStringify(Obj(<< <<"refresh_token", cfg.refreshToken>> >>))]]

\* A faulty ShouldRefresh: the noAuth option is not looked at.
ShouldRefresh_IgnoringNoAuth(res, noAuth, cfg) ==
  res.status = 401 /\ Truthy(cfg.refreshToken)

\* Line 146: the condition under which apiRequest calls refreshAccessToken.
ShouldRefresh(res, noAuth, cfg) ==
  res.status = 401 /\ ~Truthy(noAuth) /\ Truthy(cfg.refreshToken)

\* Lines 60-69: whether refreshAccessToken returns true on the refresh
\* response.  A body that is no JSON, and a TypeError on reading data.token of
\* null, are caught by the catch of line 68.
RefreshSucceeds(rres) ==
  /\ IsOk(rres)
  /\ rres.readable
  /\ JSONParse(rres.body).ok
  /\ ~IsNullish(JSONParse(rres.body).value)

\* A faulty RefreshUpdates: only the access token is written.
RefreshUpdates_TokenOnly(rres) ==
  [token |-> GetProp(JSONParse(rres.body).value, "token")]

\* Lines 62-66: the update refreshAccessToken makes.
RefreshUpdates(rres) ==
  [token |-> GetProp(JSONParse(rres.body).value, "token"),
   refreshToken |-> GetProp(JSONParse(rres.body).value, "refresh_token")]

\* Line 149: the Authorization header of the retry.
RetryAuthorization(cfg) == "Bearer " \o StringOf(cfg.token)

\* Lines 149-154: the request the retry sends.
RetryRequest(req, cfg) ==
  [req EXCEPT !.headers = SetHeader(@, "Authorization", RetryAuthorization(cfg))]

\* A faulty ResponseToParse: the first response is parsed even after a retry.
ResponseToParse_First(res, retryRes, refreshed) == res

\* Line 151: `res` is reassigned by the retry, so the response parsed from
\* line 165 on is the retried one after a refresh, the first one otherwise.
ResponseToParse(res, retryRes, refreshed) == IF refreshed THEN retryRes ELSE res

\* A faulty AfterRetryResponse: a 401 on the retry starts another refresh.
AfterRetryResponse_Again(retryRes, noAuth, cfg) ==
  IF retryRes.status = 401 /\ ~Truthy(noAuth) /\ Truthy(cfg.refreshToken)
    THEN "RefreshAttempted" ELSE "Parsed"

\* Lines 150-165: the retried response goes straight to parsing; the test of
\* line 146 is not made again.
AfterRetryResponse(retryRes, noAuth, cfg) == "Parsed"

(***************************************************************************)
(* The state.                                                              *)
(***************************************************************************)
VARIABLES
  env,      \* process.env, as far as config.ts reads it
  config,   \* config.ts `_config`: NoConfig until the first getConfig()
  calls,    \* the calls of apiRequest, by caller
  finished  \* how many calls have ended and been collected

vars == <<env, config, calls, finished>>

Callers == {"tool"}

NoResponse == [status |-> 0]

\* A caller that is not inside apiRequest.  `reply` is the text the handler of
\* a tool hands to the wrapper of index.ts:150-162.
IdleCall ==
  [pc |-> "Idle", path |-> "", opts |-> Undefined, req |-> NoBody,
   res |-> NoResponse, refreshed |-> Undefined, retryRes |-> NoResponse,
   outcome |-> Pending, log |-> << >>, trail |-> << >>, reply |-> Undefined]

\* What the network saw: the request, and the session at the time of the send.
Sent(request, cfg) == [req |-> request, session |-> cfg]

\* Bounds of the model.
MaxCalls == 2
MaxQueryEntries == 2


(***************************************************************************)
(* The environment: process.env at startup, what the tool handlers pass,   *)
(* and what the server and the transport answer.                           *)
(***************************************************************************)
EnvOf(token, refreshToken, companyId) ==
  [STORNO_BASE_URL |-> Undefined, STORNO_TOKEN |-> token,
   STORNO_REFRESH_TOKEN |-> refreshToken, STORNO_COMPANY_ID |-> companyId,
   STORNO_EMAIL |-> Undefined, STORNO_PASSWORD |-> Undefined]

\* `options = {}` with the defaults of line 78.
DefaultOptions ==
  [method |-> "GET", body |-> Undefined, query |-> Undefined, headers |-> NoHeaders,
   companyId |-> Undefined, noAuth |-> Undefined, binary |-> Undefined,
   filePath |-> Undefined, fileFieldName |-> "file", formFields |-> Undefined]

Response(status, contentType, body, readable) ==
  [status |-> status, contentType |-> contentType, body |-> body, readable |-> readable]

\* Inputs of the protocol specification.
ProtocolEnvs ==
  {EnvOf(t, r, Undefined) :
     t \in {Undefined, Str("af_live"), Str("eyJ0")}, r \in {Undefined, Str("rt0")}}

ProtocolOptions ==
  {[DefaultOptions EXCEPT !.noAuth = n, !.binary = b, !.filePath = f] :
     n \in {Undefined, Bool(TRUE)}, b \in {Undefined, Bool(TRUE)},
     f \in {Undefined, Str("/data/missing.csv")}}

ProtocolResponses ==
  {Response(st, ct, b, rd) :
     st \in {200, 204, 401, 500},
     ct \in {Str("application/json"), Str("text/html")},
     b \in {"{\"message\":\"Token expired\"}", "{\"id\":7}", "null"},
     rd \in BOOLEAN}

RefreshResponses ==
  {Response(st, Str("application/json"), b, rd) :
     st \in {200, 401},
     b \in {"{\"token\":\"eyJ1\",\"refresh_token\":\"rt1\"}",
            "{\"token\":\"af_rotated\",\"refresh_token\":\"rt1\"}",
            "{}", "null", "<html>"},
     rd \in BOOLEAN}

TransportErrors == {"fetch failed"}

Init ==
  /\ env \in ProtocolEnvs
  /\ config = NoConfig
  /\ calls = [c \in Callers |-> IdleCall]
  /\ finished = 0

(***************************************************************************)
(* apiRequest, one action per resumption of the async function.            *)
(***************************************************************************)
\* The call ends: its promise resolves with a result or rejects.
Ended(call, outcome, steps) ==
  [call EXCEPT !.pc = IF outcome.kind = "throw" THEN "Thrown" ELSE "Done",
               !.outcome = outcome,
               !.trail = @ \o steps \o <<IF outcome.kind = "throw" THEN "Thrown" ELSE "Parsed">>]

\* Lines 73-136: the call builds the request and issues the first fetch, or
\* throws when the upload file cannot be read.
apiRequest(c, path, o) ==
  /\ calls[c].pc = "Idle"
  /\ finished < MaxCalls
  /\ LET cfg == getConfig(config, env)
     IN /\ config' = cfg
        /\ calls' = [calls EXCEPT ![c] =
             IF BuildThrows(o)
               THEN [IdleCall EXCEPT !.pc = "Thrown", !.path = path, !.opts = o,
                       !.outcome = Thrown("ENOENT: no such file or directory"),
                       !.trail = <<"Thrown">>]
               ELSE [IdleCall EXCEPT !.pc = "Sent", !.path = path, !.opts = o,
                       !.req = TargetRequest(path, o, cfg),
                       !.log = <<Sent(TargetRequest(path, o, cfg), cfg)>>,
                       !.trail = <<"Built", "Sent">>]]
  /\ UNCHANGED <<env, finished>>

\* A faulty FetchFails: a fetch that rejects is issued again.
FetchFails_SendsAgain(c, cause) ==
  /\ calls[c].pc = "Sent"
  /\ calls' = [calls EXCEPT ![c] =
       [@ EXCEPT !.log = Append(@, Sent(calls[c].req, config))]]
  /\ UNCHANGED <<env, config, finished>>

\* Lines 137-143: the first fetch rejects.
FetchFails(c, cause) ==
  /\ calls[c].pc = "Sent"
  /\ calls' = [calls EXCEPT ![c] =
       [@ EXCEPT !.pc = "Done",
                 !.outcome = Returned(Failure(0, "Network error: " \o cause)),
                 !.trail = @ \o <<"TransportFailed">>]]
  /\ UNCHANGED <<env, config, finished>>

\* Lines 136 and 145-147: the first fetch resolves.  On a 401 that qualifies
\* the call enters refreshAccessToken, which sends the refresh request (lines
\* 50-58); otherwise the response is parsed.
FetchResolves(c, res) ==
  /\ calls[c].pc = "Sent"
  /\ LET call == [calls[c] EXCEPT !.res = res]
         cfg == getConfig(config, env)
     IN calls' = [calls EXCEPT ![c] =
          IF ShouldRefresh(res, call.opts.noAuth, cfg)
            THEN IF Truthy(cfg.refreshToken)
                   THEN [call EXCEPT !.pc = "RefreshAttempted",
                                     !.log = Append(@, Sent(RefreshRequest(cfg), cfg)),
                                     !.trail = @ \o <<"Received", "RefreshAttempted">>]
                   ELSE Ended([call EXCEPT !.refreshed = Bool(FALSE)],
                              ParseResponse(res, call.opts.binary),
                              <<"Received", "RefreshAttempted", "Unrefreshed">>)
            ELSE Ended(call, ParseResponse(res, call.opts.binary), <<"Received">>)]
  /\ UNCHANGED <<env, config, finished>>

\* Lines 68-69 and 148: the refresh fetch rejects, refreshAccessToken returns
\* false and the first response is parsed.
RefreshFails(c) ==
  /\ calls[c].pc = "RefreshAttempted"
  /\ calls' = [calls EXCEPT ![c] =
       Ended([@ EXCEPT !.refreshed = Bool(FALSE)],
             ParseResponse(ResponseToParse(@.res, @.retryRes, FALSE), @.opts.binary),
             <<"Unrefreshed">>)]
  /\ UNCHANGED <<env, config, finished>>

\* A faulty RefreshResolves: the retry is sent before the new pair is stored.
RefreshResolves_RetryFirst(c, rres) ==
  /\ calls[c].pc = "RefreshAttempted"
  /\ IF RefreshSucceeds(rres)
       THEN /\ config' = updateConfig(config, env, RefreshUpdates(rres))
            /\ calls' = [calls EXCEPT ![c] =
                 [@ EXCEPT !.pc = "Retried",
                           !.refreshed = Bool(TRUE),
                           !.log = Append(@, Sent(RetryRequest(calls[c].req, config), config)),
                           !.trail = @ \o <<"Retried">>]]
       ELSE /\ calls' = [calls EXCEPT ![c] =
                 Ended([@ EXCEPT !.refreshed = Bool(FALSE)],
                       ParseResponse(ResponseToParse(@.res, @.retryRes, FALSE), @.opts.binary),
                       <<"Unrefreshed">>)]
            /\ UNCHANGED config
  /\ UNCHANGED <<env, finished>>

\* Lines 60-67 and 148-154: the refresh fetch resolves.  On success the new
\* pair is stored and the request is sent again; otherwise the first response
\* is parsed.
RefreshResolves(c, rres) ==
  /\ calls[c].pc = "RefreshAttempted"
  /\ IF RefreshSucceeds(rres)
       THEN LET cfg == updateConfig(config, env, RefreshUpdates(rres))
            IN /\ config' = cfg
               /\ calls' = [calls EXCEPT ![c] =
                    [@ EXCEPT !.pc = "Retried",
                              !.refreshed = Bool(TRUE),
                              !.log = Append(@, Sent(RetryRequest(calls[c].req, cfg), cfg)),
                              !.trail = @ \o <<"Retried">>]]
       ELSE /\ calls' = [calls EXCEPT ![c] =
                 Ended([@ EXCEPT !.refreshed = Bool(FALSE)],
                       ParseResponse(ResponseToParse(@.res, @.retryRes, FALSE), @.opts.binary),
                       <<"Unrefreshed">>)]
            /\ UNCHANGED config
  /\ UNCHANGED <<env, finished>>

\* A faulty RetryFails: the text of the first send's failure is used.
RetryFails_SameText(c, cause) ==
  /\ calls[c].pc = "Retried"
  /\ calls' = [calls EXCEPT ![c] =
       [@ EXCEPT !.pc = "Done",
                 !.outcome = Returned(Failure(0, "Network error: " \o cause)),
                 !.trail = @ \o <<"TransportFailed">>]]
  /\ UNCHANGED <<env, config, finished>>

\* Lines 155-161: the retry rejects.
RetryFails(c, cause) ==
  /\ calls[c].pc = "Retried"
  /\ calls' = [calls EXCEPT ![c] =
       [@ EXCEPT !.pc = "Done",
                 !.outcome = Returned(Failure(0, "Network error after token refresh: " \o cause)),
                 !.trail = @ \o <<"TransportFailed">>]]
  /\ UNCHANGED <<env, config, finished>>

\* Lines 151-154 and 165-212: the retry resolves and its response is parsed.
RetryResolves(c, res) ==
  /\ calls[c].pc = "Retried"
  /\ LET call == [calls[c] EXCEPT !.retryRes = res]
         cfg == getConfig(config, env)
     IN calls' = [calls EXCEPT ![c] =
          IF AfterRetryResponse(res, call.opts.noAuth, cfg) = "Parsed"
            THEN Ended(call,
                       ParseResponse(ResponseToParse(call.res, res, TRUE), call.opts.binary),
                       << >>)
            ELSE [call EXCEPT !.pc = "RefreshAttempted",
                              !.log = Append(@, Sent(RefreshRequest(cfg), cfg)),
                              !.trail = @ \o <<"RefreshAttempted">>]]
  /\ UNCHANGED <<env, config, finished>>

\* The caller takes the result (or catches the exception) and is ready for
\* its next call.
Collect(c) ==
  /\ calls[c].pc \in {"Done", "Thrown"}
  /\ calls' = [calls EXCEPT ![c] = IdleCall]
  /\ finished' = finished + 1
  /\ UNCHANGED <<env, config>>

Call(c) == \E o \in ProtocolOptions : apiRequest(c, "/api/v1/invoices", o)

FirstFails(c) == \E cause \in TransportErrors : FetchFails(c, cause)

FirstResolves(c) == \E res \in ProtocolResponses : FetchResolves(c, res)

RefreshAnswers(c) == \E rres \in RefreshResponses : RefreshResolves(c, rres)

RetryRejects(c) == \E cause \in TransportErrors : RetryFails(c, cause)

RetryAnswers(c) == \E res \in ProtocolResponses : RetryResolves(c, res)

Next ==
  \E c \in Callers :
    \/ Call(c)
    \/ FirstFails(c)
    \/ FirstResolves(c)
    \/ RefreshFails(c)
    \/ RefreshAnswers(c)
    \/ RetryRejects(c)
    \/ RetryAnswers(c)
    \/ Collect(c)

Spec == Init /\ [][Next]_vars

(***************************************************************************)
(* Properties of the refresh protocol.                                     *)
(***************************************************************************)
SendsTo(call, dest) == Cardinality({i \in 1..Len(call.log) : call.log[i].req.dest = dest})

HasEnded(call) == call.pc \in {"Done", "Thrown"}

HasReturned(call) == call.pc = "Done" /\ call.outcome.kind = "return"

\* The call got a 401 first, with auth not bypassed, and its refresh call
\* returned `refreshed`.
RefreshedAfter401(call, refreshed) ==
  /\ call.res.status = 401
  /\ ~Truthy(call.opts.noAuth)
  /\ call.refreshed = Bool(refreshed)

\* C1: a call whose first response is a 401 (noAuth unset, refresh token held)
\* and whose refresh call succeeds sends exactly two requests to the target
\* and exactly one to the refresh endpoint, and the result it returns is the
\* one computed from the retry (the parse of the retried response, or the
\* transport failure of the retry), never from the first 401.
C1_RefreshThenRetryOnce ==
  \A c \in Callers :
    LET call == calls[c]
    IN RefreshedAfter401(call, TRUE) =>
         /\ Truthy(call.log[2].session.refreshToken)
         /\ SendsTo(call, "target") = 2
         /\ SendsTo(call, "refresh") = 1
         /\ call.log[1].req.url = call.log[3].req.url
         /\ HasReturned(call) /\ call.retryRes # NoResponse =>
              /\ call.outcome = ParseResponse(call.retryRes, call.opts.binary)
              /\ call.outcome.value.status = call.retryRes.status
         /\ HasReturned(call) /\ call.retryRes = NoResponse =>
              /\ call.outcome.value.status = 0
              /\ ~call.outcome.value.ok

C1_Witness ==
  \E c \in Callers :
    /\ RefreshedAfter401(calls[c], TRUE)
    /\ HasReturned(calls[c])
    /\ calls[c].retryRes.status = 200
    /\ calls[c].outcome.value.ok
    /\ calls[c].outcome.value.status = 200

\* C2: whatever the server answers, one call sends at most one refresh request
\* and at most two requests to the target; a 401 on the retry ends the call
\* with that 401 parsed, without another refresh or send.
C2_NoRefreshLoop ==
  \A c \in Callers :
    LET call == calls[c]
    IN /\ SendsTo(call, "refresh") <= 1
       /\ SendsTo(call, "target") <= 2
       /\ call.retryRes.status = 401 =>
            /\ HasEnded(call)
            /\ SendsTo(call, "refresh") = 1
            /\ SendsTo(call, "target") = 2
            /\ HasReturned(call) =>
                 /\ call.outcome = ParseResponse(call.retryRes, call.opts.binary)
                 /\ call.outcome.value.status = 401

C2_Witness ==
  \E c \in Callers :
    /\ calls[c].retryRes.status = 401
    /\ HasReturned(calls[c])
    /\ calls[c].outcome.value.status = 401
    /\ Truthy(config.refreshToken)

\* C3: when the first response is a 401 (noAuth unset, refresh token held) and
\* the refresh call fails, the call sends no retry and returns a Failure of
\* status 401 computed from the first response.
C3_RefreshFailureFallsBack ==
  \A c \in Callers :
    LET call == calls[c]
    IN RefreshedAfter401(call, FALSE) /\ HasEnded(call) =>
         /\ SendsTo(call, "target") = 1
         /\ call.outcome.kind = "return"
         /\ ~call.outcome.value.ok
         /\ call.outcome.value.status = 401
         /\ call.outcome = ParseResponse(call.res, call.opts.binary)

\* C4: a refresh request is sent only when the first response is a 401, noAuth
\* is not set and the session holds a refresh token; in every other case no
\* refresh request is sent and the first response is the one parsed.
C4_RefreshOnlyWhenQualified ==
  \A c \in Callers :
    LET call == calls[c]
        qualifies == /\ call.res.status = 401
                     /\ ~Truthy(call.opts.noAuth)
                     /\ Truthy(call.log[1].session.refreshToken)
    IN /\ SendsTo(call, "refresh") > 0 => qualifies
       /\ call.res # NoResponse /\ ~qualifies =>
            /\ HasEnded(call)
            /\ SendsTo(call, "refresh") = 0
            /\ SendsTo(call, "target") = 1
            /\ call.outcome = ParseResponse(call.res, call.opts.binary)

C4_Witness ==
  \E c \in Callers :
    /\ calls[c].res.status = 401
    /\ Truthy(calls[c].opts.noAuth)
    /\ Truthy(calls[c].log[1].session.refreshToken)
    /\ HasReturned(calls[c])
    /\ SendsTo(calls[c], "refresh") = 0

\* C5: apiRequest never throws: every call ends by returning a Success or a
\* Failure, never by raising an exception to its caller.
C5_NeverThrows ==
  \A c \in Callers : calls[c].pc # "Thrown" /\ calls[c].outcome.kind # "throw"

\* The steps of the per-call state machine.
TrailSteps ==
  {<<"Built", "Sent">>, <<"Sent", "TransportFailed">>, <<"Sent", "Received">>,
   <<"Received", "RefreshAttempted">>, <<"RefreshAttempted", "Retried">>,
   <<"RefreshAttempted", "Unrefreshed">>, <<"Retried", "Parsed">>,
   <<"Retried", "TransportFailed">>, <<"Unrefreshed", "Parsed">>,
   <<"Received", "Parsed">>}

\* C6: every call follows Built -> Sent -> {TransportFailed | Received},
\* Received(401) -> RefreshAttempted -> {Retried | Unrefreshed}, and ends
\* yielding exactly one result, a Success or a Failure.
C6_OneResultPerCall ==
  \A c \in Callers :
    LET call == calls[c]
    IN /\ \A i \in 1..(Len(call.trail) - 1) :
            <<call.trail[i], call.trail[i + 1]>> \in TrailSteps
       /\ HasEnded(call) =>
            /\ call.trail[1] = "Built"
            /\ call.trail[Len(call.trail)] \in {"Parsed", "TransportFailed"}
            /\ call.outcome.kind = "return"
            /\ call.outcome.value.ok \in BOOLEAN

\* C7: every request sent to the target with noAuth unset while the session
\* holds a token, the first request and the retry alike, carries the token
\* verbatim as Authorization when it starts with 'af_', and 'Bearer ' + token
\* otherwise.
C7_AuthorizationByTokenKind ==
  \A c \in Callers :
    \A i \in 1..Len(calls[c].log) :
      LET sent == calls[c].log[i]
      IN sent.req.dest = "target" /\ ~Truthy(calls[c].opts.noAuth)
           /\ Truthy(sent.session.token) =>
           /\ "Authorization" \in DOMAIN sent.req.headers
           /\ sent.req.headers["Authorization"] =
                IF StartsWith(sent.session.token.s, "af_")
                  THEN sent.session.token.s
                  ELSE "Bearer " \o sent.session.token.s

(***************************************************************************)
(* Building the request: a second specification, whose calls range over    *)
(* the query maps, the company ids and the bodies a tool handler can pass, *)
(* against a server with few answers.                                      *)
(***************************************************************************)
QueryKeys == {"page", "limit", "search"}

QueryValues == {Undefined, JNull, Str(""), Str("abc"), Num(0), Bool(FALSE)}

DistinctKeys(entries) ==
  \A i, j \in 1..Len(entries) : entries[i][1] = entries[j][1] => i = j

\* Object.entries of the query objects of at most MaxQueryEntries properties.
QueryEntryLists ==
  UNION {{q \in [1..n -> QueryKeys \X QueryValues] : DistinctKeys(q)} : n \in 0..MaxQueryEntries}

QueryOptions ==
  {DefaultOptions} \cup
  {[DefaultOptions EXCEPT !.query = Obj(q)] : q \in QueryEntryLists}

CompanyOptions ==
  {[DefaultOptions EXCEPT !.companyId = id, !.noAuth = n] :
     id \in {Undefined, Str(""), Str("co-call")}, n \in {Undefined, Bool(TRUE)}}

BodyOptions ==
  {[DefaultOptions EXCEPT !.method = "POST", !.filePath = f, !.body = b, !.formFields = ff] :
     f \in {Undefined, Str(""), Str("/data/statement.csv"), Str("/data/missing.csv")},
     b \in {Undefined, Obj(<< >>), Obj(<< <<"a", Num(1)>> >>)},
     ff \in {Undefined, Obj(<< <<"provider", Str("bank")>> >>)}}

BuildOptions == QueryOptions \cup CompanyOptions \cup BodyOptions

BuildEnvs ==
  {EnvOf(Str("af_xyz"), Str("rt0"), id) : id \in {Undefined, Str(""), Str("co-env")}}

BuildResponses ==
  {Response(401, Str("application/json"), "{\"message\":\"Token expired\"}", TRUE),
   Response(200, Str("application/json"), "{\"id\":7}", TRUE)}

BuildRefreshResponses ==
  {Response(200, Str("application/json"), "{\"token\":\"eyJ1\",\"refresh_token\":\"rt1\"}", TRUE)}

InitBuild ==
  /\ env \in BuildEnvs
  /\ config = NoConfig
  /\ calls = [c \in Callers |-> IdleCall]
  /\ finished = 0

BuildCall(c) == \E o \in BuildOptions : apiRequest(c, "/api/v1/invoices", o)

BuildFirstResolves(c) == \E res \in BuildResponses : FetchResolves(c, res)

BuildRefreshAnswers(c) == \E rres \in BuildRefreshResponses : RefreshResolves(c, rres)

BuildRetryAnswers(c) == \E res \in BuildResponses : RetryResolves(c, res)

NextBuild ==
  \E c \in Callers :
    \/ BuildCall(c)
    \/ FirstFails(c)
    \/ BuildFirstResolves(c)
    \/ RefreshFails(c)
    \/ BuildRefreshAnswers(c)
    \/ RetryRejects(c)
    \/ BuildRetryAnswers(c)
    \/ Collect(c)

SpecBuild == InitBuild /\ [][NextBuild]_vars

(***************************************************************************)
(* Properties of the request that is built.                                *)
(***************************************************************************)
IsGiven(v) == v.t = "string" /\ v.s # ""

TargetRequests(call) ==
  {call.log[i].req : i \in {j \in 1..Len(call.log) : call.log[j].req.dest = "target"}}

\* C8: the X-Company header of every outbound request of a call equals the
\* per-call companyId when one is given (non-empty), else the session's
\* companyId when one is set; when neither is set the header is absent.
C8_CompanyHeader ==
  \A c \in Callers :
    \A r \in TargetRequests(calls[c]) :
      LET override == calls[c].opts.companyId
          session == calls[c].log[1].session.companyId
      IN /\ IsGiven(override) =>
              "X-Company" \in DOMAIN r.headers /\ r.headers["X-Company"] = override.s
         /\ ~IsGiven(override) /\ IsGiven(session) =>
              "X-Company" \in DOMAIN r.headers /\ r.headers["X-Company"] = session.s
         /\ ~IsGiven(override) /\ ~IsGiven(session) => "X-Company" \notin DOMAIN r.headers

C8_Witness ==
  \E c \in Callers :
    /\ calls[c].opts # Undefined
    /\ calls[c].opts.companyId = Str("co-call")
    /\ Len(calls[c].log) = 3
    /\ calls[c].log[1].session.companyId = Str("co-env")
    /\ calls[c].log[3].req.headers["X-Company"] = "co-call"

ParamsNamed(params, key) == {i \in 1..Len(params) : params[i][1] = key}

\* C9: a key of the query map whose value is undefined, null or '' does not
\* appear in the outbound query string; every other key appears exactly once,
\* with its value as a string (0 as '0', false as 'false'); no other key
\* appears.
C9_QueryString ==
  \A c \in Callers :
    \A r \in TargetRequests(calls[c]) :
      LET query == calls[c].opts.query
          params == r.url.searchParams
      IN IF query = Undefined THEN params = << >>
         ELSE /\ \A i \in 1..Len(query.entries) :
                   LET key == query.entries[i][1]
                       value == query.entries[i][2]
                   IN IF value \in {Undefined, JNull, Str("")}
                        THEN ParamsNamed(params, key) = {}
                        ELSE /\ Cardinality(ParamsNamed(params, key)) = 1
                             /\ \A j \in ParamsNamed(params, key) :
                                  /\ value.t = "string" => params[j][2] = value.s
                                  /\ value = Num(0) => params[j][2] = "0"
                                  /\ value = Bool(FALSE) => params[j][2] = "false"
              /\ \A j \in 1..Len(params) :
                   \E i \in 1..Len(query.entries) : query.entries[i][1] = params[j][1]

C9_Witness ==
  \E c \in Callers :
    /\ calls[c].opts # Undefined
    /\ calls[c].opts.query =
         Obj(<< <<"page", Num(0)>>, <<"search", Str("")>> >>)
    /\ calls[c].pc = "Sent"
    /\ calls[c].req.url.searchParams = << <<"page", "0">> >>

\* C10: every request sent carries exactly one of a multipart upload, a JSON
\* body, or no body: the multipart form whenever a filePath is given (a body
\* option is then ignored and no JSON Content-Type is set), the serialized
\* body with Content-Type application/json only when no filePath and a body
\* are given, and no body otherwise.
C10_OneBodyKind ==
  \A c \in Callers :
    \A r \in TargetRequests(calls[c]) :
      LET o == calls[c].opts
      IN /\ r.body.kind \in {"multipart", "json", "none"}
         /\ IsGiven(o.filePath) =>
              /\ r.body.kind = "multipart"
              /\ r.body.parts[1].name = "file"
              /\ r.body.parts[1].filename = "statement.csv"
              /\ "Content-Type" \notin DOMAIN r.headers
         /\ ~IsGiven(o.filePath) /\ o.body # Undefined =>
              /\ r.body.kind = "json"
              /\ r.body.text = JSONStringify(o.body)
              /\ o.body = Obj(<< <<"a", Num(1)>> >>) => r.body.text = "{\"a\":1}"
              /\ r.headers["Content-Type"] = "application/json"
         /\ ~IsGiven(o.filePath) /\ o.body = Undefined =>
              /\ r.body = NoBody
              /\ "Content-Type" \notin DOMAIN r.headers

C10_Witness ==
  \E c \in Callers :
    /\ calls[c].opts # Undefined
    /\ calls[c].opts.filePath = Str("/data/statement.csv")
    /\ calls[c].opts.body = Obj(<< <<"a", Num(1)>> >>)
    /\ Len(calls[c].log) = 3
    /\ calls[c].log[3].req.body.kind = "multipart"

(***************************************************************************)
(* Parsing the response: a third specification, whose server answers with  *)
(* many statuses, content types and bodies, to calls that differ in the    *)
(* binary option.                                                          *)
(***************************************************************************)
ParseEnvs == {EnvOf(Str("eyJ0"), r, Undefined) : r \in {Undefined, Str("rt0")}}

ParseOptions == {[DefaultOptions EXCEPT !.binary = b] : b \in {Undefined, Bool(TRUE)}}

\* `headers.get('content-type')` is null when the response has no such header.
ParseResponses ==
  {Response(st, ct, b, rd) :
     st \in {200, 204, 401, 404},
     ct \in {Str("application/json"), Str("application/json; charset=utf-8"),
             Str("text/html"), JNull},
     b \in {"{\"id\":7}", "{\"message\":\"Token expired\"}", "<html>", ""},
     rd \in BOOLEAN}

ParseRefreshResponses ==
  {Response(200, Str("application/json"), "{\"token\":\"eyJ1\",\"refresh_token\":\"rt1\"}", TRUE),
   Response(401, Str("application/json"), "{\"message\":\"Token expired\"}", TRUE)}

InitParse ==
  /\ env \in ParseEnvs
  /\ config = NoConfig
  /\ calls = [c \in Callers |-> IdleCall]
  /\ finished = 0

ParseCall(c) == \E o \in ParseOptions : apiRequest(c, "/api/v1/invoices", o)

ParseFirstResolves(c) == \E res \in ParseResponses : FetchResolves(c, res)

ParseRefreshAnswers(c) == \E rres \in ParseRefreshResponses : RefreshResolves(c, rres)

ParseRetryAnswers(c) == \E res \in ParseResponses : RetryResolves(c, res)

NextParse ==
  \E c \in Callers :
    \/ ParseCall(c)
    \/ FirstFails(c)
    \/ ParseFirstResolves(c)
    \/ RefreshFails(c)
    \/ ParseRefreshAnswers(c)
    \/ RetryRejects(c)
    \/ ParseRetryAnswers(c)
    \/ Collect(c)

SpecParse == InitParse /\ [][NextParse]_vars

(***************************************************************************)
(* Properties of the result computed from the final response.              *)
(***************************************************************************)
\* The response a call that has ended was left with: the retried one after a
\* refresh, the first one otherwise.
FinalResponse(call) == ResponseToParse(call.res, call.retryRes, call.refreshed = Bool(TRUE))

\* C11, as stated: a call whose final response has status 204 returns
\* Success{status: 204, data: null}, whether or not the binary option is set
\* and whatever the content type.
C11_NoContentAlways ==
  \A c \in Callers :
    LET call == calls[c]
    IN HasEnded(call) /\ FinalResponse(call).status = 204 =>
         call.outcome = Returned(Success(204, JNull))

\* C11, amended: a call without the binary option whose final response has
\* status 204 returns Success{status: 204, data: null}, whatever the content
\* type and the body.
C11_NoContentUnlessBinary ==
  \A c \in Callers :
    LET call == calls[c]
    IN HasEnded(call) /\ FinalResponse(call).status = 204 /\ ~Truthy(call.opts.binary) =>
         call.outcome = Returned(Success(204, JNull))

C11_Witness ==
  \E c \in Callers :
    /\ HasReturned(calls[c])
    /\ calls[c].opts.binary = Undefined
    /\ calls[c].res = Response(204, Str("application/json"), "", TRUE)
    /\ calls[c].outcome.value = Success(204, JNull)

\* The first fetch of the call was rejected: no response was received.
FirstSendFailed(call) == call.pc = "Done" /\ call.res = NoResponse

\* C12: a call whose first send fails at transport level ends at once with
\* Failure{status: 0, error: 'Network error: <cause>'}: it has sent the
\* target request once, no refresh request and no retry, and the session is
\* the one the request was sent under.
C12_TransportFailureIsTerminal ==
  \A c \in Callers :
    LET call == calls[c]
    IN /\ call.pc = "Sent" => SendsTo(call, "target") = 1 /\ SendsTo(call, "refresh") = 0
       /\ FirstSendFailed(call) =>
            /\ \E cause \in TransportErrors :
                 call.outcome = Returned(Failure(0, "Network error: " \o cause))
            /\ call.trail = <<"Built", "Sent", "TransportFailed">>
            /\ SendsTo(call, "target") = 1
            /\ SendsTo(call, "refresh") = 0
            /\ Len(call.log) = 1
            /\ config = call.log[1].session

C12_Witness ==
  \E c \in Callers :
    /\ FirstSendFailed(calls[c])
    /\ Truthy(config.refreshToken)
    /\ calls[c].opts.noAuth = Undefined
    /\ calls[c].outcome.value = Failure(0, "Network error: fetch failed")

\* The response declares a JSON content type (line 185) and its body is no
\* JSON text.
UnparseableJson(res) ==
  /\ res # NoResponse
  /\ Includes(StringOf(OrElse(res.contentType, Str(""))), "application/json")
  /\ res.readable
  /\ ~JSONParse(res.body).ok

\* C13, as stated: a call without the binary option whose final response
\* declares a JSON content type and carries a body that is no JSON returns
\* Failure{status, error: 'Failed to parse JSON response'}, whatever the
\* status.
C13_UnparseableJsonFails ==
  \A c \in Callers :
    LET call == calls[c]
        res == FinalResponse(call)
    IN HasEnded(call) /\ ~Truthy(call.opts.binary) /\ UnparseableJson(res) =>
         call.outcome = Returned(Failure(res.status, "Failed to parse JSON response"))

\* C13, amended: the same, for every status but 204; a 204 is answered with
\* Success{status: 204, data: null} before its body is looked at.
C13_UnparseableJsonFailsUnless204 ==
  \A c \in Callers :
    LET call == calls[c]
        res == FinalResponse(call)
    IN HasEnded(call) /\ ~Truthy(call.opts.binary) /\ UnparseableJson(res) =>
         IF res.status = 204
           THEN call.outcome = Returned(Success(204, JNull))
           ELSE call.outcome = Returned(Failure(res.status, "Failed to parse JSON response"))

C13_Witness ==
  \E c \in Callers :
    /\ HasReturned(calls[c])
    /\ calls[c].opts.binary = Undefined
    /\ calls[c].res = Response(200, Str("application/json; charset=utf-8"), "<html>", TRUE)
    /\ calls[c].outcome.value = Failure(200, "Failed to parse JSON response")

\* The bytes a base64 text stands for.
B64Index(ch) == IndexIn(B64Alphabet, ch) - 1

RECURSIVE Base64Decode(_)
Base64Decode(text) ==
  IF Len(text) < 4 THEN << >>
  ELSE LET ch(i) == SubSeq(text, i, i)
           b1 == B64Index(ch(1)) * 4 + B64Index(ch(2)) \div 16
           b2 == (B64Index(ch(2)) % 16) * 16 + B64Index(ch(3)) \div 4
           b3 == (B64Index(ch(3)) % 4) * 64 + B64Index(ch(4))
       IN IF ch(3) = "=" THEN <<b1>>
          ELSE IF ch(4) = "=" THEN <<b1, b2>>
          ELSE <<b1, b2, b3>> \o Base64Decode(SubSeq(text, 5, Len(text)))

\* C14: a call with the binary option whose final response is OK returns a
\* Success whose data holds just base64 and contentType: the base64 text
\* decodes to the bytes of the response body, and contentType is the
\* content-type header of the response, null when there is none.
C14_BinaryRoundTrip ==
  \A c \in Callers :
    LET call == calls[c]
        res == FinalResponse(call)
    IN HasEnded(call) /\ Truthy(call.opts.binary) /\ IsOk(res) =>
         /\ call.outcome.kind = "return"
         /\ call.outcome.value.ok
         /\ call.outcome.value.status = res.status
         /\ DOMAIN call.outcome.value.data = {"base64", "contentType"}
         /\ Base64Decode(call.outcome.value.data.base64) = BodyBytes(res.body)
         /\ call.outcome.value.data.contentType = res.contentType

(***************************************************************************)
(* index.ts and the tool handlers: the server process.  main() logs in     *)
(* when it has credentials and no token, then connects the transport; from *)
(* then on the client invokes tools, one at a time.                        *)
(***************************************************************************)
ServerCallers == {"main", "tool"}

AuthPath == "/api/auth"

CompaniesPath == "/api/v1/companies"

\* A faulty LoginOptions: the login request is not marked noAuth.
LoginOptions_Authenticated(email, password) ==
  [DefaultOptions EXCEPT !.method = "POST",
                         !.body = Obj(<< <<"email", email>>, <<"password", password>> >>)]

\* index.ts:170-174 and pdf-template-config.ts:151-155: the options of the
\* login request.
LoginOptions(email, password) ==
  [DefaultOptions EXCEPT !.method = "POST", !.noAuth = Bool(TRUE),
                         !.body = Obj(<< <<"email", email>>, <<"password", password>> >>)]

\* pdf-template-config.ts:229-236: the options of the auth_refresh request.
TokenRefreshOptions(refreshToken) ==
  [DefaultOptions EXCEPT !.method = "POST", !.noAuth = Bool(TRUE),
                         !.body = Obj(<< <<"refresh_token", refreshToken>> >>)]

\* index.ts:169: the condition of the automatic login.
AutoLogin(cfg) == ~Truthy(cfg.token) /\ Truthy(cfg.email) /\ Truthy(cfg.password)

\* index.ts:175-180, pdf-template-config.ts:157-162 and 238-243: the result
\* of the token request is stored when it is a Success; reading the pair off
\* a null data throws before anything is stored.
StoresTokens(outcome) ==
  outcome.kind = "return" /\ outcome.value.ok /\ ~IsNullish(outcome.value.data)

TokenUpdates_TokenOnly(data) == [token |-> GetProp(data, "token")]

\* index.ts:176-179, pdf-template-config.ts:161-162 and 242-243: the update
\* made with the data of a login or of a token refresh.
TokenUpdates(data) ==
  [token |-> GetProp(data, "token"), refreshToken |-> GetProp(data, "refresh_token")]

\* index.ts:167-185, up to the first await: main() reads the session and
\* either issues the login request or connects the transport.
MainStarts ==
  /\ calls["main"].pc = "Idle"
  /\ LET cfg == getConfig(config, env)
     IN IF AutoLogin(cfg)
          THEN apiRequest("main", AuthPath, LoginOptions(cfg.email, cfg.password))
          ELSE /\ config' = cfg
               /\ calls' = [calls EXCEPT !["main"] = [@ EXCEPT !.pc = "Connected"]]
               /\ UNCHANGED <<env, finished>>

\* index.ts:175-185 and 188-190: main() resumes with the result of the login:
\* it stores the pair of a Success and connects the transport; an exception
\* ends the process.
MainResumes ==
  /\ calls["main"].pc \in {"Done", "Thrown"}
  /\ LET out == calls["main"].outcome
     IN IF out.kind = "throw" \/ (out.value.ok /\ IsNullish(out.value.data))
          THEN /\ calls' = [calls EXCEPT !["main"] = [@ EXCEPT !.pc = "Exited"]]
               /\ UNCHANGED config
          ELSE /\ config' = IF StoresTokens(out)
                              THEN updateConfig(config, env, TokenUpdates(out.value.data))
                              ELSE config
               /\ calls' = [calls EXCEPT !["main"] = [@ EXCEPT !.pc = "Connected"]]
  /\ UNCHANGED <<env, finished>>

\* index.ts:184-185: requests of the client reach the handlers through the
\* transport, once it is connected.
Accepting(c) ==
  /\ c # "main"
  /\ calls["main"].pc = "Connected"
  /\ calls[c].pc = "Idle"
  /\ finished < MaxCalls

\* pdf-template-config.ts:148-155: auth_login, up to its await.
auth_login(c, email, password) ==
  /\ Accepting(c)
  /\ apiRequest(c, AuthPath, LoginOptions(Str(email), Str(password)))

\* pdf-template-config.ts:221-236: auth_refresh, up to its await, or to its
\* return when there is no refresh token to send.
auth_refresh(c, paramToken) ==
  /\ Accepting(c)
  /\ LET refreshToken == OrElse(paramToken, getConfig(config, env).refreshToken)
     IN IF ~Truthy(refreshToken)
          THEN /\ config' = getConfig(config, env)
               /\ finished' = finished + 1
               /\ UNCHANGED <<env, calls>>
          ELSE apiRequest(c, RefreshPath, TokenRefreshOptions(refreshToken))

\* pdf-template-config.ts:157-173 and 238-254, index.ts:152-163: the handler
\* of auth_login or auth_refresh resumes with the result of its request and
\* replies.
TokenToolResumes(c) ==
  /\ c # "main"
  /\ calls[c].pc \in {"Done", "Thrown"}
  /\ calls[c].path \in {AuthPath, RefreshPath}
  /\ config' = IF StoresTokens(calls[c].outcome)
                 THEN updateConfig(config, env, TokenUpdates(calls[c].outcome.value.data))
                 ELSE config
  /\ calls' = [calls EXCEPT ![c] = [@ EXCEPT !.pc = "Replied"]]
  /\ UNCHANGED <<env, finished>>

companies_select_ResetsSession(c, companyId) ==
  /\ Accepting(c)
  /\ config' = [ConfigFromEnv(env) EXCEPT !.companyId = Str(companyId)]
  /\ finished' = finished + 1
  /\ UNCHANGED <<env, calls>>

\* part_008:221-235: companies_select.
companies_select(c, companyId) ==
  /\ Accepting(c)
  /\ config' = updateConfig(config, env, [companyId |-> Str(companyId)])
  /\ finished' = finished + 1
  /\ UNCHANGED <<env, calls>>

\* errors.ts:27-36.
notAuthenticated ==
  "Error: Not authenticated." \o "\n" \o "" \o "\n"
    \o "To authenticate, either:" \o "\n"
    \o "1. Set STORNO_TOKEN environment variable in MCP server config" \o "\n"
    \o "2. Call the auth_login tool with email and password" \o "\n"
    \o "3. Set STORNO_EMAIL and STORNO_PASSWORD env vars for auto-login"

\* errors.ts:41-50.
noCompanySelected ==
  "Error: No company selected." \o "\n" \o "" \o "\n"
    \o "To select a company, either:" \o "\n"
    \o "1. Set STORNO_COMPANY_ID environment variable in MCP server config" \o "\n"
    \o "2. Call the companies_list tool, then use the company UUID in subsequent calls" \o "\n"
    \o "3. Most tools accept an optional companyId parameter to override"

\* JSON.stringify(value, null, 2) of a primitive or of a flat object of
\* primitives; undefined has no JSON text.
RECURSIVE PrettyEntries(_, _)
PrettyEntries(entries, first) ==
  IF entries = << >> THEN ""
  ELSE IF Head(entries)[2] = Undefined THEN PrettyEntries(Tail(entries), first)
  ELSE (IF first THEN "" ELSE ",") \o "\n" \o "  "
         \o "\"" \o Head(entries)[1] \o "\": " \o JSONStringifyPrimitive(Head(entries)[2])
         \o PrettyEntries(Tail(entries), FALSE)

JSONStringifyPretty(v) ==
  IF v = Undefined THEN Undefined
  ELSE IF v.t = "object"
    THEN IF PrettyEntries(v.entries, TRUE) = ""
           THEN Str("{}")
           ELSE Str("{" \o PrettyEntries(v.entries, TRUE) \o "\n" \o "}")
  ELSE Str(JSONStringifyPrimitive(v))

\* errors.ts:11-22.
formatResponse(response) ==
  IF ~response.ok
    THEN Str("Error " \o NatToString(response.status) \o ": " \o response.error
               \o IF "details" \in DOMAIN response /\ Truthy(response.details)
                     THEN "\n" \o "\n" \o JSONStringifyPretty(response.details).s
                     ELSE "")
    ELSE JSONStringifyPretty(response.data)

\* index.ts:150-162: what the wrapper hands to the client when the handler
\* returned `text`, and when it threw.
HandlerReturns(call, text) == [call EXCEPT !.pc = "Replied", !.reply = text]

\* `err.message` of an exception the model names "<class>: <message>".
ErrorMessage(error) ==
  IF StartsWith(error, "TypeError: ") THEN SubSeq(error, 12, Len(error)) ELSE error

HandlerThrows(call, error) ==
  [call EXCEPT !.pc = "Replied", !.reply = Str("Unexpected error: " \o ErrorMessage(error))]

companies_list_Unchecked(c) ==
  /\ Accepting(c)
  /\ apiRequest(c, CompaniesPath, DefaultOptions)

\* part_008:12-17: companies_list, up to its await, or to its return of
\* notAuthenticated().
companies_list(c) ==
  /\ Accepting(c)
  /\ IF ~Truthy(getConfig(config, env).token)
       THEN /\ config' = getConfig(config, env)
            /\ calls' = [calls EXCEPT ![c] =
                 HandlerReturns([IdleCall EXCEPT !.path = CompaniesPath],
                                Str(notAuthenticated))]
            /\ UNCHANGED <<env, finished>>
       ELSE apiRequest(c, CompaniesPath, DefaultOptions)

PaymentsPath(invoiceId) == "/api/v1/invoices/" \o invoiceId \o "/payments"

\* part_002:6-8.
getCompanyId(companyId, cfg) == OrElse(companyId, cfg.companyId)

\* part_002:22-30: payments_list, up to its await, or to its return of
\* notAuthenticated() or of noCompanySelected().
payments_list(c, invoiceId, companyId) ==
  /\ Accepting(c)
  /\ LET cfg == getConfig(config, env)
     IN IF ~Truthy(cfg.token) \/ ~Truthy(getCompanyId(companyId, cfg))
          THEN /\ config' = cfg
               /\ calls' = [calls EXCEPT ![c] =
                    HandlerReturns([IdleCall EXCEPT !.path = PaymentsPath(invoiceId)],
                                   IF ~Truthy(cfg.token)
                                     THEN Str(notAuthenticated)
                                     ELSE Str(noCompanySelected))]
               /\ UNCHANGED <<env, finished>>
          ELSE apiRequest(c, PaymentsPath(invoiceId),
                          [DefaultOptions EXCEPT !.companyId = getCompanyId(companyId, cfg)])

\* part_008:15-16, part_002:31 and index.ts:150-162: the handler of
\* companies_list or of payments_list resumes with the result of its request
\* and replies with formatResponse of it.
ListToolResumes(c) ==
  /\ c # "main"
  /\ calls[c].pc \in {"Done", "Thrown"}
  /\ calls[c].path \notin {AuthPath, RefreshPath}
  /\ calls' = [calls EXCEPT ![c] =
       IF @.outcome.kind = "throw"
         THEN HandlerThrows(@, @.outcome.error)
         ELSE HandlerReturns(@, formatResponse(@.outcome.value))]
  /\ UNCHANGED <<env, config, finished>>

\* The reply has gone to the client, which may invoke the next tool.
ToolReplied(c) ==
  /\ calls[c].pc = "Replied"
  /\ calls' = [calls EXCEPT ![c] = IdleCall]
  /\ finished' = finished + 1
  /\ UNCHANGED <<env, config>>

\* process.env of the server, and what the client and the remote send it.
ServerEnvs ==
  {[EnvOf(t, r, id) EXCEPT !.STORNO_BASE_URL = u, !.STORNO_EMAIL = cr[1], !.STORNO_PASSWORD = cr[2]] :
     t \in {Undefined, Str("eyJ0")}, r \in {Undefined, Str("rt0")},
     id \in {Undefined, Str("co-env")},
     u \in {Undefined, Str("https://storno.test/")},
     cr \in {<<Undefined, Undefined>>, <<Str("a@b.ro"), Undefined>>,
             <<Str("a@b.ro"), Str("secret")>>}}

TokenResponses ==
  {Response(200, Str("application/json"), "{\"token\":\"eyJ2\",\"refresh_token\":\"rt2\"}", TRUE),
   Response(200, Str("application/json"), "{}", TRUE),
   Response(200, Str("application/json"), "null", TRUE),
   Response(401, Str("application/json"), "{\"message\":\"Token expired\"}", TRUE),
   Response(401, Str("application/json"), "null", TRUE)}

ListResponses ==
  {Response(200, Str("application/json"), "{\"id\":7}", TRUE),
   Response(401, Str("application/json"), "{\"message\":\"Token expired\"}", TRUE),
   Response(401, Str("application/json"), "null", TRUE)}

ServerResponses(path) ==
  IF path \in {AuthPath, RefreshPath} THEN TokenResponses ELSE ListResponses

ServerRefreshResponses ==
  {Response(200, Str("application/json"), "{\"token\":\"eyJ1\",\"refresh_token\":\"rt1\"}", TRUE),
   Response(401, Str("application/json"), "{\"message\":\"Token expired\"}", TRUE)}

CompanyIds == {"", "co-A", "co-B"}

RefreshTokenParams == {Undefined, Str("rt-given")}

InitServer ==
  /\ env \in ServerEnvs
  /\ config = NoConfig
  /\ calls = [c \in ServerCallers |-> IdleCall]
  /\ finished = 0

Login(c) == auth_login(c, "a@b.ro", "secret")

TokenRefresh(c) == \E t \in RefreshTokenParams : auth_refresh(c, t)

SelectCompany(c) == \E id \in CompanyIds : companies_select(c, id)

ServerFirstResolves(c) == \E res \in ServerResponses(calls[c].path) : FetchResolves(c, res)

ServerRefreshAnswers(c) == \E rres \in ServerRefreshResponses : RefreshResolves(c, rres)

ServerRetryAnswers(c) == \E res \in ServerResponses(calls[c].path) : RetryResolves(c, res)

NextServer ==
  \/ MainStarts
  \/ MainResumes
  \/ \E c \in ServerCallers :
       \/ Login(c)
       \/ TokenRefresh(c)
       \/ SelectCompany(c)
       \/ companies_list(c)
       \/ FirstFails(c)
       \/ ServerFirstResolves(c)
       \/ RefreshFails(c)
       \/ ServerRefreshAnswers(c)
       \/ RetryRejects(c)
       \/ ServerRetryAnswers(c)
       \/ TokenToolResumes(c)
       \/ ListToolResumes(c)
       \/ ToolReplied(c)

SpecServer == InitServer /\ [][NextServer]_vars

(***************************************************************************)
(* Properties of the session and of the handlers that write it.            *)
(***************************************************************************)
\* `after` is `before` with the fields named in `partial` replaced, the other
\* fields kept, and no field added.
MergeOf(before, after, partial) ==
  /\ after # NoConfig
  /\ DOMAIN after = DOMAIN before
  /\ \A k \in DOMAIN before :
       after[k] = IF k \in DOMAIN partial THEN partial[k] ELSE before[k]

\* The steps that call updateConfig, each with the partial it passes.
UpdateStep(partial) ==
  \/ \E c \in ServerCallers, id \in CompanyIds :
       companies_select(c, id) /\ partial = [companyId |-> Str(id)]
  \/ \E c \in ServerCallers :
       /\ TokenToolResumes(c)
       /\ StoresTokens(calls[c].outcome)
       /\ partial = TokenUpdates(calls[c].outcome.value.data)
  \/ /\ MainResumes
     /\ StoresTokens(calls["main"].outcome)
     /\ partial = TokenUpdates(calls["main"].outcome.value.data)
  \/ \E c \in ServerCallers, rres \in ServerRefreshResponses :
       RefreshResolves(c, rres) /\ RefreshSucceeds(rres) /\ partial = RefreshUpdates(rres)

SessionPartials ==
  {[companyId |-> Str(id)] : id \in CompanyIds} \cup
  {TokenUpdates(JSONParse(res.body).value) :
     res \in {r \in TokenResponses \cup ServerRefreshResponses : JSONParse(r.body).ok}}

\* C15: there is one session: once created, getConfig() returns it as it is,
\* without reading process.env again.  A step that calls updateConfig(partial)
\* leaves the session with the fields named in partial at their new values and
\* every other field at its previous value, and that is the session the next
\* getConfig() returns; every other step leaves the session as it is, or
\* creates it from process.env.
C15_ShallowMerge ==
  /\ [](config # NoConfig => getConfig(config, env) = config)
  /\ [][/\ \A partial \in SessionPartials :
             UpdateStep(partial) =>
               /\ MergeOf(getConfig(config, env), config', partial)
               /\ getConfig(config', env) = config'
        /\ (\A partial \in SessionPartials : ~UpdateStep(partial)) =>
             config' = getConfig(config, env) \/ config' = config]_vars

C15_Witness ==
  /\ env.STORNO_TOKEN = Undefined
  /\ env.STORNO_COMPANY_ID = Str("co-env")
  /\ config # NoConfig
  /\ config.token = Str("eyJ2")
  /\ config.refreshToken = Str("rt2")
  /\ config.companyId = Str("co-A")
  /\ config.baseUrl = "https://storno.test"
  /\ getConfig(config, env) = config

\* The base URL computed from process.env when the session is created.
InitialBaseUrl == StripTrailingSlash(OrElse(env.STORNO_BASE_URL, Str(DefaultBaseUrl)).s)

\* C16: once the session exists its baseUrl is the value computed from
\* process.env at its creation, whatever logins, refreshes, company
\* selections and requests have happened since; every request was sent under
\* a session with that baseUrl.
C16_BaseUrlImmutable ==
  /\ config # NoConfig => config.baseUrl = InitialBaseUrl
  /\ \A c \in ServerCallers :
       \A i \in 1..Len(calls[c].log) :
         /\ calls[c].log[i].session.baseUrl = InitialBaseUrl
         /\ StartsWith(calls[c].log[i].req.url.href, InitialBaseUrl \o "/api/")

C16_Witness ==
  /\ env.STORNO_BASE_URL = Str("https://storno.test/")
  /\ config # NoConfig
  /\ config.baseUrl = "https://storno.test"
  /\ config.token = Str("eyJ1")
  /\ config.companyId = Str("co-B")
  /\ \E c \in ServerCallers :
       /\ calls[c].pc = "Retried"
       /\ calls[c].log[3].req.url.href = "https://storno.test/api/v1/companies"

(***************************************************************************)
(* The same call made twice: the second call starts when the first has     *)
(* ended, with the same path and options, against a remote that answers    *)
(* equal requests to the target equally and whose connection does not      *)
(* fail.                                                                   *)
(***************************************************************************)
TwiceCallers == {"first", "second"}

TwiceEnvs ==
  {EnvOf(t, r, Undefined) :
     t \in {Undefined, Str("af_live"), Str("eyJ0")}, r \in {Undefined, Str("rt0")}}

TwiceOptions == {[DefaultOptions EXCEPT !.binary = b] : b \in {Undefined, Bool(TRUE)}}

TwiceResponses ==
  {Response(200, Str("application/json"), "{\"id\":7}", TRUE),
   Response(200, Str("application/json"), "{}", TRUE),
   Response(200, Str("text/html"), "<html>", TRUE),
   Response(401, Str("application/json"), "{\"message\":\"Token expired\"}", TRUE)}

TwiceRefreshResponses ==
  {Response(200, Str("application/json"), "{\"token\":\"eyJ1\",\"refresh_token\":\"rt1\"}", TRUE),
   Response(200, Str("application/json"), "{\"token\":\"af_rotated\",\"refresh_token\":\"rt1\"}", TRUE),
   Response(401, Str("application/json"), "{\"message\":\"Token expired\"}", TRUE)}

\* The requests to the target a call has had answered, each with its answer.
Answered(call) ==
  (IF call.res # NoResponse THEN {<<call.log[1].req, call.res>>} ELSE {}) \cup
  (IF call.retryRes # NoResponse THEN {<<call.log[3].req, call.retryRes>>} ELSE {})

\* The remote does not change: it answers a request as it answered the same
\* request before.
StableAnswer(req, res) ==
  \A c \in TwiceCallers : \A a \in Answered(calls[c]) : a[1] = req => a[2] = res

InitTwice ==
  /\ env \in TwiceEnvs
  /\ config = NoConfig
  /\ calls = [c \in TwiceCallers |-> IdleCall]
  /\ finished = 0

FirstCall == \E o \in TwiceOptions : apiRequest("first", "/api/v1/invoices", o)

SecondCall ==
  /\ HasEnded(calls["first"])
  /\ apiRequest("second", calls["first"].path, calls["first"].opts)

TwiceFirstResolves(c) ==
  \E res \in TwiceResponses : StableAnswer(calls[c].req, res) /\ FetchResolves(c, res)

TwiceRefreshAnswers(c) == \E rres \in TwiceRefreshResponses : RefreshResolves(c, rres)

TwiceRetryAnswers(c) ==
  \E res \in TwiceResponses :
    /\ calls[c].pc = "Retried"
    /\ StableAnswer(calls[c].log[3].req, res)
    /\ RetryResolves(c, res)

NextTwice ==
  \/ FirstCall
  \/ SecondCall
  \/ \E c \in TwiceCallers :
       \/ TwiceFirstResolves(c)
       \/ TwiceRefreshAnswers(c)
       \/ TwiceRetryAnswers(c)

SpecTwice == InitTwice /\ [][NextTwice]_vars

\* C17: of two calls with the same inputs for a GET, made one after the other
\* against a remote that does not change, the second returns a Success with
\* the data of the first whenever the first returns a Success, also when the
\* first call refreshed the token pair of the session.
C17_NoHiddenCaching ==
  LET first == calls["first"]
      second == calls["second"]
  IN HasEnded(first) /\ HasEnded(second) /\ first.outcome.kind = "return"
       /\ first.outcome.value.ok =>
       /\ second.outcome.kind = "return"
       /\ second.outcome.value.ok
       /\ second.outcome.value.data = first.outcome.value.data

\* No tool has been invoked yet.
NoToolYet == finished = 0 /\ \A c \in ServerCallers \ {"main"} : calls[c].pc = "Idle"

\* C18: main() sends a login request, without Authorization header, exactly
\* when the session has no token and both email and password are configured.
\* When the login succeeds the session holds the returned pair at the moment
\* the transport is connected; when it fails the session is still without a
\* token and the transport is connected all the same: the process never ends
\* at startup.  No tool runs before the transport is connected, so none runs
\* while the login is in flight.
C18_StartupAutoLogin ==
  LET main == calls["main"]
  IN /\ main.pc # "Idle" =>
          /\ Len(main.log) = (IF AutoLogin(ConfigFromEnv(env)) THEN 1 ELSE 0)
          /\ \A i \in 1..Len(main.log) :
               /\ main.log[i].req.dest = "target"
               /\ main.log[i].req.method = "POST"
               /\ main.log[i].req.url.href = InitialBaseUrl \o AuthPath
               /\ "Authorization" \notin DOMAIN main.log[i].req.headers
               /\ main.log[i].req.body.kind = "json"
     /\ main.pc \notin {"Thrown", "Exited"}
     /\ main.pc = "Connected" /\ main.log # << >> /\ NoToolYet =>
          IF main.outcome.value.ok
            THEN /\ config.token = GetProp(main.outcome.value.data, "token")
                 /\ config.refreshToken = GetProp(main.outcome.value.data, "refresh_token")
            ELSE ~Truthy(config.token)
     /\ ~NoToolYet => main.pc = "Connected"

\* The call is the request of an auth_login invocation.
IsLogin(c) == c # "main" /\ calls[c].path = AuthPath

\* The steps that store a token pair in the session.
TokenWrite ==
  \/ MainResumes
  \/ \E c \in ServerCallers : TokenToolResumes(c)
  \/ \E c \in ServerCallers, rres \in ServerRefreshResponses : RefreshResolves(c, rres)

\* C19: the request of auth_login is sent once, without Authorization header,
\* and no refresh request follows it, whatever the answer.  When the handler
\* replies after a Success carrying a pair, the session's token and
\* refreshToken are that pair; when it replies after a Failure they are what
\* they were when the request was sent.  Every request a later tool sends
\* with authentication carries the session token of that moment, and the
\* session token changes only where a login or a refresh stores a pair.
C19_LoginStoresTokens ==
  /\ [](\A c \in ServerCallers :
          LET call == calls[c]
          IN /\ IsLogin(c) =>
                  /\ Len(call.log) = 1
                  /\ SendsTo(call, "refresh") = 0
                  /\ "Authorization" \notin DOMAIN call.log[1].req.headers
                  /\ call.pc = "Replied" /\ call.outcome.kind = "return" =>
                       IF call.outcome.value.ok
                         THEN ~IsNullish(call.outcome.value.data) =>
                                /\ config.token = GetProp(call.outcome.value.data, "token")
                                /\ config.refreshToken =
                                     GetProp(call.outcome.value.data, "refresh_token")
                         ELSE /\ config.token = call.log[1].session.token
                              /\ config.refreshToken = call.log[1].session.refreshToken
             /\ call.path = CompaniesPath =>
                  \A i \in 1..Len(call.log) :
                    call.log[i].req.dest = "target" =>
                      /\ Truthy(call.log[i].session.token)
                      /\ call.log[i].req.headers["Authorization"] \in
                           {call.log[i].session.token.s,
                            "Bearer " \o call.log[i].session.token.s})
  /\ [][config # NoConfig /\ config'.token # config.token => TokenWrite]_vars

C19_Witness ==
  \E c \in ServerCallers :
    /\ IsLogin(c)
    /\ calls[c].pc = "Replied"
    /\ calls[c].log[1].session.token = Str("eyJ0")
    /\ calls[c].log[1].session.refreshToken = Str("rt0")
    /\ calls[c].res.status = 200
    /\ config.token = Str("eyJ2")
    /\ config.refreshToken = Str("rt2")

\* The steps in which companies_select handles a request of the client.
Selects == \E c \in ServerCallers, id \in CompanyIds : companies_select(c, id)

InvoiceIds == {"inv-1"}

CompanyParams == {Undefined, Str("co-P")}

ListPayments(c) ==
  \E invoiceId \in InvoiceIds, companyId \in CompanyParams :
    payments_list(c, invoiceId, companyId)

NextTools ==
  \/ NextServer
  \/ \E c \in ServerCallers : ListPayments(c)

SpecTools == InitServer /\ [][NextTools]_vars

\* The steps in which the handler of a tool that checks the token starts.
StartsListTool(c) == companies_list(c) \/ ListPayments(c)

\* The handler that started is awaiting the answer to its one request.
SentItsRequest(call, path) ==
  /\ call.pc = "Sent"
  /\ Len(call.log) = 1
  /\ call.log[1].req.dest = "target"
  /\ call.log[1].req.url.href = getConfig(config, env).baseUrl \o path
  /\ call.reply = Undefined

\* The handler that started has returned `text` and has sent nothing.
RepliedUnsent(call, text) ==
  /\ call.pc = "Replied"
  /\ call.log = << >>
  /\ call.reply = Str(text)

\* C21 as stated: a tool that checks the token, started while the session has
\* no token, sends no request and returns the text of notAuthenticated();
\* started while the session has a token, it sends its request.
C21_TokenGate ==
  [][\A c \in ServerCallers :
       StartsListTool(c) =>
         IF Truthy(getConfig(config, env).token)
           THEN SentItsRequest(calls[c], calls[c].path)'
           ELSE RepliedUnsent(calls[c], notAuthenticated)']_vars

\* C21, amended: a tool that checks the token, started while the session has
\* no token, sends no request and returns the text of notAuthenticated().
\* Started while the session has a token, companies_list sends its request;
\* payments_list sends its request when a company is given or selected, and
\* otherwise sends none and returns the text of noCompanySelected().
C21_TokenThenCompanyGate ==
  [][\A c \in ServerCallers :
       /\ StartsListTool(c) /\ ~Truthy(getConfig(config, env).token) =>
            RepliedUnsent(calls[c], notAuthenticated)'
       /\ companies_list(c) /\ Truthy(getConfig(config, env).token) =>
            SentItsRequest(calls[c], CompaniesPath)'
       /\ \A invoiceId \in InvoiceIds, companyId \in CompanyParams :
            payments_list(c, invoiceId, companyId) /\ Truthy(getConfig(config, env).token) =>
              IF Truthy(companyId) \/ Truthy(getConfig(config, env).companyId)
                THEN SentItsRequest(calls[c], PaymentsPath(invoiceId))'
                ELSE RepliedUnsent(calls[c], noCompanySelected)']_vars

\* The environment holds no token, a login stored one, and payments_list then
\* sent its request with it.
C21_Witness ==
  \E c \in ServerCallers :
    /\ env.STORNO_TOKEN = Undefined
    /\ config # NoConfig
    /\ config.token = Str("eyJ2")
    /\ calls[c].path = PaymentsPath("inv-1")
    /\ calls[c].pc = "Sent"
    /\ calls[c].log[1].req.headers["Authorization"] = "Bearer eyJ2"

(***************************************************************************)
(* Properties of the results of apiRequest.                                *)
(***************************************************************************)
\* The call has returned a Failure with status 0.
ReturnedStatus0(call) ==
  HasReturned(call) /\ ~call.outcome.value.ok /\ call.outcome.value.status = 0

\* The call sent its request again after a refresh.
Retried(call) == call.refreshed = Bool(TRUE)

\* C22 as stated: every Failure with status 0 that apiRequest returns has the
\* error text "Network error: <cause>", on the first send and on the retry.
C22_NetworkErrorText ==
  \A c \in Callers :
    ReturnedStatus0(calls[c]) =>
      \E cause \in TransportErrors :
        calls[c].outcome.value.error = "Network error: " \o cause

\* C22, amended: a Failure with status 0 has the error text
\* "Network error: <cause>" when the first send failed, and
\* "Network error after token refresh: <cause>" when the retry failed.
C22_NetworkErrorTextBySend ==
  \A c \in Callers :
    ReturnedStatus0(calls[c]) =>
      \E cause \in TransportErrors :
        calls[c].outcome.value.error =
          IF Retried(calls[c])
            THEN "Network error after token refresh: " \o cause
            ELSE "Network error: " \o cause

C22_Witness ==
  \E c \in Callers :
    /\ ReturnedStatus0(calls[c])
    /\ Retried(calls[c])
    /\ SendsTo(calls[c], "target") = 2

\* The requests of the call that have been sent and not yet answered: the
\* call awaits the answer to the last request it sent, and to no other.
InFlight(call) ==
  IF call.pc \in {"Sent", "RefreshAttempted", "Retried"} THEN {Len(call.log)} ELSE {}

\* C23: the requests of one call are sent one after the other.  The refresh
\* request is the second request and is sent when the first response, a 401,
\* has been received; the retry is the third request and is sent when the
\* refresh response has been received, in the step that receives it, after
\* the pair of that response was written to the session: the session seen
\* by the retry holds that pair.  At most one request of the call is
\* awaiting its answer, and no request is sent while another one is.
C23_RefreshThenRetrySequenced ==
  /\ [](\A c \in Callers :
          LET call == calls[c]
          IN /\ Cardinality(InFlight(call)) <= 1
             /\ \A i \in 1..Len(call.log) :
                  /\ call.log[i].req.dest = "refresh" =>
                       i = 2 /\ call.res # NoResponse /\ call.res.status = 401
                  /\ i > 1 /\ call.log[i].req.dest = "target" =>
                       /\ i = 3 /\ call.log[2].req.dest = "refresh"
                       /\ Retried(call)
                       /\ call.log[3].req.headers["Authorization"] =
                            "Bearer " \o StringOf(call.log[3].session.token))
  /\ [][\A c \in Callers :
          /\ Len(calls'[c].log) > Len(calls[c].log) =>
               /\ Len(calls'[c].log) = Len(calls[c].log) + 1
               /\ InFlight(calls'[c]) = {Len(calls'[c].log)}
               /\ calls[c].pc # "Idle" => InFlight(calls[c]) = {Len(calls[c].log)}
          /\ \A rres \in RefreshResponses :
               RefreshResolves(c, rres) /\ Len(calls'[c].log) = 3 =>
                 /\ config'.token = GetProp(JSONParse(rres.body).value, "token")
                 /\ config'.refreshToken = GetProp(JSONParse(rres.body).value, "refresh_token")
                 /\ calls'[c].log[3].session = config']_vars

C23_Witness ==
  \E c \in Callers :
    /\ calls[c].pc = "Retried"
    /\ Len(calls[c].log) = 3
    /\ calls[c].log[1].session.token = Str("eyJ0")
    /\ calls[c].log[2].session.refreshToken = Str("rt0")
    /\ calls[c].log[3].session.token = Str("eyJ1")
    /\ calls[c].log[3].session.refreshToken = Str("rt1")

(***************************************************************************)
(* Concurrent tool invocations: the client does not wait for the reply to  *)
(* one request before it sends the next, and the handlers interleave at    *)
(* their awaits.                                                           *)
(***************************************************************************)
RaceCallers == {"main", "t1", "t2"}

RaceTokenResponses ==
  {Response(200, Str("application/json"), "{\"token\":\"eyJ2\",\"refresh_token\":\"rt2\"}", TRUE),
   Response(401, Str("application/json"), "{\"message\":\"Token expired\"}", TRUE)}

RaceListResponses ==
  {Response(200, Str("application/json"), "{\"id\":7}", TRUE),
   Response(401, Str("application/json"), "{\"message\":\"Token expired\"}", TRUE)}

RaceResponses(path) ==
  IF path \in {AuthPath, RefreshPath} THEN RaceTokenResponses ELSE RaceListResponses

RaceRefreshResponses ==
  {Response(200, Str("application/json"), "{\"token\":\"eyJ1\",\"refresh_token\":\"rt1\"}", TRUE),
   Response(200, Str("application/json"), "{\"token\":\"eyJ3\",\"refresh_token\":\"rt3\"}", TRUE),
   Response(200, Str("application/json"), "{\"token\":\"eyJ5\"}", TRUE),
   Response(401, Str("application/json"), "{\"message\":\"Token expired\"}", TRUE)}

InitRace ==
  /\ env \in ParseEnvs
  /\ config = NoConfig
  /\ calls = [c \in RaceCallers |-> IdleCall]
  /\ finished = 0

RaceFirstResolves(c) == \E res \in RaceResponses(calls[c].path) : FetchResolves(c, res)

RaceRefreshAnswers(c) == \E rres \in RaceRefreshResponses : RefreshResolves(c, rres)

RaceRetryAnswers(c) == \E res \in RaceResponses(calls[c].path) : RetryResolves(c, res)

NextRace ==
  \/ MainStarts
  \/ \E c \in RaceCallers :
       \/ Login(c)
       \/ TokenRefresh(c)
       \/ companies_list(c)
       \/ RaceFirstResolves(c)
       \/ RefreshFails(c)
       \/ RaceRefreshAnswers(c)
       \/ RaceRetryAnswers(c)
       \/ TokenToolResumes(c)
       \/ ListToolResumes(c)
       \/ ToolReplied(c)

SpecRace == InitRace /\ [][NextRace]_vars

\* The token pair a session holds, and the pair a response carries.
SessionPair(cfg) == <<cfg.token, cfg.refreshToken>>

PairOf(res) ==
  <<GetProp(JSONParse(res.body).value, "token"),
    GetProp(JSONParse(res.body).value, "refresh_token")>>

\* The pairs of the login and refresh responses the remote may send.
RacePairs == {PairOf(res) : res \in {r \in RaceTokenResponses \cup RaceRefreshResponses : IsOk(r)}}

\* C24: under every interleaving of the handlers, the session holds the pair
\* of the environment or the two members of one login or refresh response,
\* and so does the session every request was sent under; every step that
\* changes the token or the refresh token leaves the two members of one
\* response in the session.
C24_NoHalfUpdatedSession ==
  /\ [](/\ config # NoConfig =>
             SessionPair(config) \in {SessionPair(ConfigFromEnv(env))} \cup RacePairs
        /\ \A c \in RaceCallers : \A i \in 1..Len(calls[c].log) :
             SessionPair(calls[c].log[i].session)
               \in {SessionPair(ConfigFromEnv(env))} \cup RacePairs)
  /\ [][SessionPair(getConfig(config', env')) # SessionPair(getConfig(config, env))
          => SessionPair(config') \in RacePairs]_vars

\* A login stored its pair while the retry of another call, sent under the
\* pair of a refresh, was awaiting its answer.
C24_Witness ==
  \E a, b \in RaceCallers :
    /\ calls[a].path = AuthPath
    /\ calls[a].pc = "Replied"
    /\ SessionPair(config) = <<Str("eyJ2"), Str("rt2")>>
    /\ calls[b].pc = "Retried"
    /\ SessionPair(calls[b].log[3].session) = <<Str("eyJ1"), Str("rt1")>>

\* The steps that write a token pair to the session.
RaceTokenWrite ==
  \E c \in RaceCallers :
    \/ TokenToolResumes(c)
    \/ \E rres \in RaceRefreshResponses : RefreshResolves(c, rres)

\* C25: every automatic refresh that succeeds writes the pair of its response
\* over whatever pair the session holds, also the pair another call's refresh
\* wrote meanwhile; nothing but such a write or a login changes the pair, so
\* the session holds the pair written last.  The refresh request carries the
\* refresh token the session held when the 401 was received.
C25_RacingRefreshesLastWriteWins ==
  /\ [][/\ \A c \in RaceCallers, rres \in RaceRefreshResponses :
            RefreshResolves(c, rres) /\ RefreshSucceeds(rres) =>
              SessionPair(config') = PairOf(rres)
        /\ SessionPair(getConfig(config', env')) # SessionPair(getConfig(config, env))
             => RaceTokenWrite]_vars
  /\ [](\A c \in RaceCallers : \A i \in 1..Len(calls[c].log) :
          calls[c].log[i].req.dest = "refresh" =>
            calls[c].log[i].req.body.text =
              JSONStringify(Obj(<< <<"refresh_token", calls[c].log[i].session.refreshToken>> >>)))

\* Two calls both sent a refresh request with the refresh token 'rt0'; the
\* one wrote 'eyJ1'/'rt1', the other then wrote 'eyJ3'/'rt3' over it.
C25_Witness ==
  \E a, b \in RaceCallers :
    /\ a # b
    /\ Len(calls[a].log) = 3 /\ Len(calls[b].log) = 3
    /\ calls[a].log[2].session.refreshToken = Str("rt0")
    /\ calls[b].log[2].session.refreshToken = Str("rt0")
    /\ calls[a].log[2].req.body = calls[b].log[2].req.body
    /\ SessionPair(calls[a].log[3].session) = <<Str("eyJ1"), Str("rt1")>>
    /\ SessionPair(calls[b].log[3].session) = <<Str("eyJ3"), Str("rt3")>>
    /\ SessionPair(config) = <<Str("eyJ3"), Str("rt3")>>

\* C26: every automatic refresh request is a POST to the session's base URL
\* followed by the fixed refresh path, without query string.  Its only
\* header is Content-Type: application/json, so it has no Authorization
\* header, and its body is the JSON text {"refresh_token": <the session's
\* refresh token when the refresh starts>}; the session's access token
\* occurs nowhere in it.
C26_RefreshBypassesAuth ==
  \A c \in ServerCallers : \A i \in 1..Len(calls[c].log) :
    LET sent == calls[c].log[i]
    IN sent.req.dest = "refresh" =>
         /\ sent.req.method = "POST"
         /\ sent.req.url.href = sent.session.baseUrl \o "/api/auth/token/refresh"
         /\ sent.req.url.searchParams = << >>
         /\ DOMAIN sent.req.headers = {"Content-Type"}
         /\ sent.req.headers["Content-Type"] = "application/json"
         /\ sent.req.body.kind = "json"
         /\ sent.session.refreshToken.t = "string"
         /\ sent.req.body.text =
              "{\"refresh_token\":\"" \o sent.session.refreshToken.s \o "\"}"
         /\ sent.session.token.t = "string" =>
              /\ ~Includes(sent.req.body.text, sent.session.token.s)
              /\ ~Includes(sent.req.url.href, sent.session.token.s)

\* The refresh of a list call carries the refresh token a login stored, not
\* the environment's.
C26_Witness ==
  \E c \in ServerCallers :
    /\ calls[c].path = CompaniesPath
    /\ Len(calls[c].log) >= 2
    /\ env.STORNO_REFRESH_TOKEN = Str("rt0")
    /\ env.STORNO_BASE_URL = Str("https://storno.test/")
    /\ calls[c].log[1].req.headers["Authorization"] = "Bearer eyJ2"
    /\ calls[c].log[2].req.body.text = "{\"refresh_token\":\"rt2\"}"
    /\ calls[c].log[2].req.url.href = "https://storno.test/api/auth/token/refresh"

(***************************************************************************)
(* Calls whose responses declare a JSON content type.                      *)
(***************************************************************************)
\* A response with status 204 has no body.
JsonResponses ==
  {Response(st, Str("application/json"), b, TRUE) :
     st \in {200, 401, 404},
     b \in {"{\"id\":7}", "{}", "null", "7", "{\"message\":\"Token expired\"}",
            "{\"error\":\"denied\"}", "{\"message\":\"\",\"error\":\"denied\"}"}}
    \cup {Response(204, Str("application/json"), "", TRUE)}

JsonFirstResolves(c) == \E res \in JsonResponses : FetchResolves(c, res)

JsonRetryAnswers(c) == \E res \in JsonResponses : RetryResolves(c, res)

NextJson ==
  \E c \in Callers :
    \/ ParseCall(c)
    \/ JsonFirstResolves(c)
    \/ ParseRefreshAnswers(c)
    \/ JsonRetryAnswers(c)
    \/ Collect(c)

SpecJson == InitParse /\ [][NextJson]_vars

\* The call has ended on a final response that declares a JSON content type
\* and whose body is a JSON text.
EndedOnJson(call) ==
  /\ HasEnded(call)
  /\ FinalResponse(call) # NoResponse
  /\ Includes(StringOf(OrElse(FinalResponse(call).contentType, Str(""))), "application/json")
  /\ FinalResponse(call).readable
  /\ JSONParse(FinalResponse(call).body).ok

\* The first non-empty of the body's message field and error field, else
\* "HTTP <status>".
FirstErrorText(body, status) ==
  LET message == GetProp(body, "message")
      error == GetProp(body, "error")
  IN IF message.t = "string" /\ message.s # "" THEN message.s
     ELSE IF error.t = "string" /\ error.s # "" THEN error.s
     ELSE "HTTP " \o NatToString(status)

\* C27: a call without the binary option whose final response declares a
\* JSON content type and carries a JSON text returns, for a non-OK status,
\* Failure{status, error, details} with the first non-empty of the body's
\* message and error fields, else "HTTP <status>", as error and the parsed
\* body as details; and for an OK status Success{status, data: parsed body}.
C27_JsonResult ==
  \A c \in Callers :
    LET call == calls[c]
        res == FinalResponse(call)
        parsed == JSONParse(res.body).value
    IN EndedOnJson(call) /\ ~Truthy(call.opts.binary) =>
         call.outcome =
           IF IsOk(res)
             THEN Returned(Success(res.status, parsed))
             ELSE Returned(FailureWithDetails(res.status,
                                              FirstErrorText(parsed, res.status), parsed))

\* The last request the call sent to the target was rejected by the
\* transport: no response to it was received.
LastTargetSendFailed(call) ==
  IF Retried(call) THEN call.retryRes = NoResponse ELSE call.res = NoResponse

\* C28: every Success apiRequest returns has a status from 200 to 299; a
\* result has status 0 exactly when the last request sent to the target was
\* rejected by the transport; and a result made from a received response has
\* the status of that response and is a Failure when that status is not from
\* 200 to 299.
C28_StatusOfResult ==
  \A c \in Callers :
    LET call == calls[c]
        result == call.outcome.value
    IN HasReturned(call) =>
         /\ result.ok => result.status >= 200 /\ result.status <= 299
         /\ result.status = 0 <=> LastTargetSendFailed(call)
         /\ ~LastTargetSendFailed(call) =>
              /\ result.status = FinalResponse(call).status
              /\ (FinalResponse(call).status < 200 \/ FinalResponse(call).status > 299)
                   => ~result.ok

\* The first response was a 401, the retried one a 200, and the result is a
\* Success with status 200.
C28_Witness ==
  \E c \in Callers :
    /\ HasReturned(calls[c])
    /\ Retried(calls[c])
    /\ calls[c].res.status = 401
    /\ calls[c].retryRes.status = 200
    /\ calls[c].outcome.value.ok
    /\ calls[c].outcome.value.status = 200

\* The steps in which an automatic refresh succeeds.
RefreshSucceeded ==
  \E c \in Callers, rres \in RefreshResponses : RefreshResolves(c, rres) /\ RefreshSucceeds(rres)

\* C29: a step of apiRequest changes the session only where an automatic
\* refresh succeeds, and then only token and refreshToken; a refresh that
\* fails and the steps of a call without refresh leave token, refreshToken,
\* companyId and baseUrl as they were; and a session that holds an access
\* token holds one after every step.
C29_SessionWrittenOnlyByRefresh ==
  [][LET before == getConfig(config, env)
         after == getConfig(config', env')
     IN /\ after # before => RefreshSucceeded
        /\ after.companyId = before.companyId
        /\ after.baseUrl = before.baseUrl
        /\ Truthy(before.token) => Truthy(after.token)]_vars

(***************************************************************************)
(* A tool that calls apiRequest with noAuth, invoked twice with the same   *)
(* parameters, and a login that may change the session in between.         *)
(***************************************************************************)
NoAuthCallers == {"main", "left", "between", "right"}

LicensingPath == "/api/v1/licensing/validate"

\* licensing.ts:91-99: the options of the licensing_validate request.
ValidateOptions(licenseKey, instanceName, instanceUrl) ==
  [DefaultOptions EXCEPT
     !.method = "POST", !.noAuth = Bool(TRUE),
     !.body = Obj(<< <<"licenseKey", licenseKey>> >>
                    \o (IF instanceName # Undefined
                          THEN << <<"instanceName", instanceName>> >> ELSE << >>)
                    \o (IF instanceUrl # Undefined
                          THEN << <<"instanceUrl", instanceUrl>> >> ELSE << >>))]

\* licensing.ts:84-99: licensing_validate, up to its await.
licensing_validate(c, licenseKey, instanceName, instanceUrl) ==
  /\ Accepting(c)
  /\ apiRequest(c, LicensingPath, ValidateOptions(licenseKey, instanceName, instanceUrl))

NoAuthEnvs ==
  {EnvOf(t, r, id) :
     t \in {Undefined, Str("af_live"), Str("eyJ0")}, r \in {Undefined, Str("rt0")},
     id \in {Undefined, Str("co-env")}}

LicenseKeys == {Str("LIC-1")}

InstanceNames == {Undefined, Str("office")}

NoAuthResponses(path) ==
  IF path = AuthPath
    THEN {Response(200, Str("application/json"), "{\"token\":\"eyJ2\",\"refresh_token\":\"rt2\"}", TRUE),
          Response(200, Str("application/json"), "{}", TRUE)}
    ELSE {Response(200, Str("application/json"), "{\"id\":7}", TRUE),
          Response(401, Str("application/json"), "{\"message\":\"Token expired\"}", TRUE)}

InitNoAuth ==
  /\ env \in NoAuthEnvs
  /\ config = NoConfig
  /\ calls = [c \in NoAuthCallers |-> IdleCall]
  /\ finished = 0

ValidateLeft ==
  \E k \in LicenseKeys, n \in InstanceNames : licensing_validate("left", k, n, Undefined)

\* The client repeats the invocation with the same parameters.
ValidateRight ==
  /\ calls["left"].pc # "Idle"
  /\ Accepting("right")
  /\ apiRequest("right", calls["left"].path, calls["left"].opts)

LoginBetween == Login("between")

NoAuthFirstResolves(c) == \E res \in NoAuthResponses(calls[c].path) : FetchResolves(c, res)

NextNoAuth ==
  \/ MainStarts
  \/ ValidateLeft
  \/ LoginBetween
  \/ ValidateRight
  \/ \E c \in NoAuthCallers :
       \/ NoAuthFirstResolves(c)
       \/ FirstFails(c)
       \/ TokenToolResumes(c)
       \/ ListToolResumes(c)

SpecNoAuth == InitNoAuth /\ [][NextNoAuth]_vars

\* The requests the call has sent, in order.
RequestsOf(call) == [i \in 1..Len(call.log) |-> call.log[i].req]

\* Two sessions that differ at most in token and refreshToken.
SameButCredentials(s1, s2) ==
  [s1 EXCEPT !.token = JNull, !.refreshToken = JNull]
    = [s2 EXCEPT !.token = JNull, !.refreshToken = JNull]

\* C30: two invocations of a tool that calls apiRequest with noAuth, made
\* with the same parameters under sessions that differ at most in token and
\* refreshToken, send the same requests: each sends one request to the
\* target, without Authorization header, and no refresh request, whatever
\* the answer.
C30_NoAuthDisclosesNothing ==
  LET left == calls["left"]
      right == calls["right"]
  IN /\ \A c \in {"left", "right"} :
          calls[c].pc # "Idle" =>
            /\ Len(calls[c].log) = 1
            /\ calls[c].log[1].req.dest = "target"
            /\ "Authorization" \notin DOMAIN calls[c].log[1].req.headers
     /\ left.pc # "Idle" /\ right.pc # "Idle"
          /\ SameButCredentials(left.log[1].session, right.log[1].session)
          => RequestsOf(left) = RequestsOf(right)

\* The first invocation was made under 'eyJ0'/'rt0' and answered 401, the
\* second under the pair a login stored in between.
C30_Witness ==
  /\ calls["left"].pc = "Replied"
  /\ calls["right"].pc = "Replied"
  /\ calls["left"].res.status = 401
  /\ SessionPair(calls["left"].log[1].session) = <<Str("eyJ0"), Str("rt0")>>
  /\ SessionPair(calls["right"].log[1].session) = <<Str("eyJ2"), Str("rt2")>>
  /\ env.STORNO_COMPANY_ID = Str("co-env")
  /\ calls["left"].log[1].req.headers["X-Company"] = "co-env"
  /\ RequestsOf(calls["left"]) = RequestsOf(calls["right"])
====
